---- MODULE Spec2Model ----
(***************************************************************************)
(* Markdown-to-UI pipeline of the blog: BlogPost.tsx (preprocessMarkdown,  *)
(* processedParts, the article render) and TableOfContents.tsx (heading    *)
(* extraction and slug derivation), and the TableOfContents with          *)
(* active-section tracking of src/unnamed/part_003.  A string is a         *)
(* sequence of characters, each a one-character string; positions named    *)
(* "0-based" follow JavaScript.  Further down: the todo page, the posts    *)
(* directory with the blog index, the Navbar, BlogList with BlogSearch,    *)
(* and the copy button of CodeBlock, each with its own variables.          *)
(***************************************************************************)
EXTENDS Integers, Sequences, FiniteSets, TLC

VARIABLES doc, pc, contentParts, processedParts, view, headings,
          lastIndex, outline, activeId, observed, firstRender,
          todoPc, todos, roadmapItems, projects, queued, effectQueue, storage,
          todoProjectId, roadmapProjectId, clock, storedBefore, touched,
          dirPc, postsDir, postList, featuredPosts, staticParams, opened,
          navPc, isMenuOpen, pathname, overflow, navQueued, navEffects, lastEvent,
          listPc, listPosts, selectedTag, searchQuery, searchText, filteredPosts,
          editPending, lastAction,
          copyPc, isCopied, writing, timers, copies, shownBy

\* the state of one TableOfContents instance besides its headings array:
\* headingRegex.lastIndex and the value the component returned
tocState == <<lastIndex, outline>>

\* the state of the outline with active-section tracking: the activeId of
\* useState and the elements its IntersectionObserver observes
activeState == <<activeId, observed>>

\* the variables of the blog post page; firstRender is a history variable:
\* what the first completed render returned
postState ==
  <<doc, pc, contentParts, processedParts, view, headings, tocState, activeState,
    firstRender>>

\* the variables of the todo page: its position, the three lists of
\* useState, the values passed to their setters and not yet rendered, the
\* effects still to run after the last render, localStorage, the project
\* fields of the two forms and Date.now(); storedBefore and touched are
\* history variables: localStorage before the mount, and whether a handler
\* has run since
todoState ==
  <<todoPc, todos, roadmapItems, projects, queued, effectQueue, storage,
    todoProjectId, roadmapProjectId, clock, storedBefore, touched>>

\* the variables of the posts directory and of the pages built from it:
\* the position of the build, the files of src/posts as readdir lists them,
\* what getPosts returned, the featured posts of the blog index, the
\* params of generateStaticParams and the file getPostBySlug opened for each
dirState == <<dirPc, postsDir, postList, featuredPosts, staticParams, opened>>

\* the variables of the Navbar: its position, isMenuOpen and pathname, the
\* value of document.body.style.overflow, the value passed to setIsMenuOpen
\* and not yet rendered, the effects still to run after the last render;
\* lastEvent is a history variable: the last thing that happened to it
navState == <<navPc, isMenuOpen, pathname, overflow, navQueued, navEffects, lastEvent>>

\* the variables of BlogList and its BlogSearch: the posts prop, selectedTag
\* and searchQuery of BlogList, searchQuery of BlogSearch (searchText), the
\* value of the useMemo; editPending and lastAction are history variables:
\* whether the input was edited since the last submit or clear, and the
\* last handler that ran
listState ==
  <<listPc, listPosts, selectedTag, searchQuery, searchText, filteredPosts,
    editPending, lastAction>>

\* the variables of one CodeBlock: isCopied, the clipboard writes that have
\* not completed, the reset timers that have not fired (oldest first) and
\* the number of copy clicks so far; shownBy is a history variable: the
\* copy whose completion last set isCopied
copyState == <<copyPc, isCopied, writing, timers, copies, shownBy>>

\* the variables of the pages other than the blog post page
otherPages == <<todoState, dirState, navState, listState, copyState>>

\* the variables a component does not touch
exceptTodo == <<postState, dirState, navState, listState, copyState>>
exceptDir == <<postState, todoState, navState, listState, copyState>>
exceptNav == <<postState, todoState, dirState, listState, copyState>>
exceptList == <<postState, todoState, dirState, navState, copyState>>
exceptCopy == <<postState, todoState, dirState, navState, listState>>

vars == <<postState, otherPages>>

\* projectId: undefined; ids are positive
Undefined == 0

\* localStorage.getItem(key) === null
Absent == [present |-> FALSE]

\* no setter has been called since the last render
NoUpdate == [set |-> FALSE]

\* the todo page is not mounted
TodoIdle ==
  /\ todoPc = "unmounted"
  /\ todos = <<>>
  /\ roadmapItems = <<>>
  /\ projects = <<>>
  /\ queued = [todos |-> NoUpdate, roadmap |-> NoUpdate, projects |-> NoUpdate]
  /\ effectQueue = <<>>
  /\ storage = [todos |-> Absent, roadmap |-> Absent, projects |-> Absent]
  /\ todoProjectId = 1
  /\ roadmapProjectId = 1
  /\ clock = 0
  /\ storedBefore = [todos |-> Absent, roadmap |-> Absent, projects |-> Absent]
  /\ touched = FALSE

\* the pages other than the blog post page are not mounted
\* selectedTag === null
NoTag == [some |-> FALSE]

\* the build has not started
DirIdle ==
  /\ dirPc = "idle"
  /\ postsDir = <<>>
  /\ postList = <<>>
  /\ featuredPosts = <<>>
  /\ staticParams = <<>>
  /\ opened = <<>>

\* the Navbar is not mounted
NavIdle ==
  /\ navPc = "idle"
  /\ isMenuOpen = FALSE
  /\ pathname = ""
  /\ overflow = ""
  /\ navQueued = NoUpdate
  /\ navEffects = <<>>
  /\ lastEvent = "none"

\* BlogList is not mounted
ListIdle ==
  /\ listPc = "idle"
  /\ listPosts = <<>>
  /\ selectedTag = NoTag
  /\ searchQuery = <<>>
  /\ searchText = <<>>
  /\ filteredPosts = <<>>
  /\ editPending = FALSE
  /\ lastAction = "none"

\* no CodeBlock is mounted
CopyIdle ==
  /\ copyPc = "idle"
  /\ isCopied = FALSE
  /\ writing = {}
  /\ timers = <<>>
  /\ copies = 0
  /\ shownBy = 0

OtherPagesIdle == TodoIdle /\ DirIdle /\ NavIdle /\ ListIdle /\ CopyIdle

(***************************************************************************)
(* Bounds of the checked input space.                                      *)
(***************************************************************************)
MaxSegChunks == 5
MaxHeadChunks == 5
MaxTocChunks == 5
MaxFenceChunks == 5
MaxSlugChunks == 4
MaxStarChunks == 7
MaxTotalChunks == 5
MaxRenderChunks == 3
MaxSixChunks == 3
MaxPlaceChunks == 5
MaxTodoAdds == 1
MaxCopies == 4
MaxListPosts == 2
MaxQueryLen == 2
MaxNameChunks == 2
MaxPosts == 3

(***************************************************************************)
(* Characters and JavaScript string primitives.                            *)
(***************************************************************************)
\* the backtick character (written by name: the lexer reserves the character)
BT == "backtick"
NL == "\n"
SP == " "

\* \s of a JavaScript regular expression, and what String.prototype.trim removes
Whitespace == {" ", "\n", "\t", "\r"}

\* the fence: three backticks
Fence == <<BT, BT, BT>>

\* the literal {toc}
TOC_PLACEHOLDER == <<"{", "t", "o", "c", "}">>

Min(a, b) == IF a < b THEN a ELSE b
Max(a, b) == IF a > b THEN a ELSE b

\* s.substring(a, b): both ends clamped to [0, length], swapped when a > b
Substring(s, a, b) ==
  LET ca == Max(0, Min(a, Len(s)))
      cb == Max(0, Min(b, Len(s)))
      lo == Min(ca, cb)
      hi == Max(ca, cb)
  IN SubSeq(s, lo + 1, hi)

\* does t occur in s at the 1-based position i
OccursAt(s, t, i) ==
  /\ i >= 1
  /\ i + Len(t) - 1 <= Len(s)
  /\ \A k \in 1..Len(t) : s[i + k - 1] = t[k]

\* s.startsWith(t), s.endsWith(t), s.includes(t)
StartsWith(s, t) == OccursAt(s, t, 1)
EndsWith(s, t) == OccursAt(s, t, Len(s) - Len(t) + 1)
Includes(s, t) == \E i \in 1..(Len(s) + 1) : OccursAt(s, t, i)

\* s.indexOf(c) for a single character c: 0-based, -1 when absent
IndexOf(s, c) ==
  IF \E i \in 1..Len(s) : s[i] = c
  THEN (CHOOSE i \in 1..Len(s) : s[i] = c /\ \A j \in 1..(i - 1) : s[j] # c) - 1
  ELSE -1

RECURSIVE TrimStart(_)
TrimStart(s) ==
  IF s # <<>> /\ Head(s) \in Whitespace THEN TrimStart(Tail(s)) ELSE s

RECURSIVE TrimEnd(_)
TrimEnd(s) ==
  IF s # <<>> /\ s[Len(s)] \in Whitespace
  THEN TrimEnd(SubSeq(s, 1, Len(s) - 1))
  ELSE s

\* s.trim()
Trim(s) == TrimEnd(TrimStart(s))

RECURSIVE Flatten(_)
Flatten(ss) == IF ss = <<>> THEN <<>> ELSE Head(ss) \o Flatten(Tail(ss))

(***************************************************************************)
(* preprocessMarkdown: content.split on the fence pattern, then the tag.   *)
(***************************************************************************)
\* The regular expression tried at the 1-based position q: the position just
\* after the match (opening fence, lazily up to the nearest closing fence),
\* or 0 when it does not match there.
FenceMatchEnd(s, q) ==
  IF OccursAt(s, Fence, q) /\ \E j \in (q + 3)..Len(s) : OccursAt(s, Fence, j)
  THEN (CHOOSE j \in (q + 3)..Len(s) :
          /\ OccursAt(s, Fence, j)
          /\ \A k \in (q + 3)..(j - 1) : ~OccursAt(s, Fence, k)) + 3
  ELSE 0

\* String.prototype.split with a capturing group: the piece before each match,
\* then the captured match, then the rest; p is where the current piece
\* starts and q where the expression is tried next.
RECURSIVE SplitFrom(_, _, _)
SplitFrom(s, p, q) ==
  IF q > Len(s)
  THEN <<SubSeq(s, p, Len(s))>>
  ELSE LET e == FenceMatchEnd(s, q)
       IN IF e = 0
          THEN SplitFrom(s, p, q + 1)
          ELSE <<SubSeq(s, p, q - 1), SubSeq(s, q, e - 1)>> \o SplitFrom(s, e, e)

\* the split with the capturing group left out: the matched text is dropped
RECURSIVE SplitFromNoCapture(_, _, _)
SplitFromNoCapture(s, p, q) ==
  IF q > Len(s)
  THEN <<SubSeq(s, p, Len(s))>>
  ELSE LET e == FenceMatchEnd(s, q)
       IN IF e = 0
          THEN SplitFromNoCapture(s, p, q + 1)
          ELSE <<SubSeq(s, p, q - 1)>> \o SplitFromNoCapture(s, e, e)

SplitFencesNoCapture(s) == SplitFromNoCapture(s, 1, 1)

SplitFences(s) == SplitFrom(s, 1, 1)

\* the callback of parts.map: i is the 0-based index of the part
TagPart(part, i) ==
  IF StartsWith(part, Fence) /\ EndsWith(part, Fence)
  THEN LET firstLineEnd == IndexOf(part, NL)
       IN [type |-> "code",
           language |-> Trim(Substring(part, 3, firstLineEnd)),
           code |-> Trim(Substring(part, firstLineEnd + 1, Len(part) - 3)),
           id |-> <<"code-block", i>>]
  ELSE [type |-> "markdown", content |-> part, id |-> <<"markdown", i>>]

preprocessMarkdown(content) ==
  LET parts == SplitFences(content)
  IN [i \in 1..Len(parts) |-> TagPart(parts[i], i - 1)]

(***************************************************************************)
(* Placeholder handling of BlogPost: hasTocPlaceholder, processContent,    *)
(* processedParts.                                                         *)
(***************************************************************************)
\* s.split(sep) for a non-empty string separator: the pieces between the
\* occurrences of sep, found from left to right without overlap
RECURSIVE SplitOnFrom(_, _, _, _)
SplitOnFrom(s, sep, p, q) ==
  IF q + Len(sep) - 1 > Len(s)
  THEN <<SubSeq(s, p, Len(s))>>
  ELSE IF OccursAt(s, sep, q)
       THEN <<SubSeq(s, p, q - 1)>> \o SplitOnFrom(s, sep, q + Len(sep), q + Len(sep))
       ELSE SplitOnFrom(s, sep, p, q + 1)

SplitOn(s, sep) == SplitOnFrom(s, sep, 1, 1)

\* s.replace(t, '') with a string pattern: only the first occurrence goes
ReplaceFirst(s, t) ==
  IF Includes(s, t)
  THEN LET i == CHOOSE i \in 1..Len(s) :
                  OccursAt(s, t, i) /\ \A j \in 1..(i - 1) : ~OccursAt(s, t, j)
       IN SubSeq(s, 1, i - 1) \o SubSeq(s, i + Len(t), Len(s))
  ELSE s

\* the test on the start of the content only
startsWithTocPlaceholder(content) == StartsWith(content, TOC_PLACEHOLDER)

hasTocPlaceholder(content) == Includes(content, TOC_PLACEHOLDER)

processContent(content) ==
  IF ~Includes(content, TOC_PLACEHOLDER)
  THEN content
  ELSE ReplaceFirst(content, TOC_PLACEHOLDER)

\* the callback of contentParts.map
ProcessPart(part) ==
  IF part.type = "markdown" /\ Includes(part.content, TOC_PLACEHOLDER)
  THEN LET splitContent == SplitOn(part.content, TOC_PLACEHOLDER)
       IN [type |-> "markdown",
           content |-> processContent(part.content),
           id |-> part.id,
           tocPositions |-> Len(splitContent) - 1,
           splitContent |-> splitContent]
  ELSE part

(***************************************************************************)
(* Slug derivation, as written in TableOfContents and in each of the       *)
(* h1/h2/h3 renderers of BlogPost:                                         *)
(*   .toLowerCase().replace(/[^\w\s-]/g, '').replace(/\s+/g, '-')          *)
(***************************************************************************)
LowerLetters ==
  {"a", "b", "c", "d", "e", "f", "g", "h", "i", "j", "k", "l", "m",
   "n", "o", "p", "q", "r", "s", "t", "u", "v", "w", "x", "y", "z"}

UpperSeq ==
  <<"A", "B", "C", "D", "E", "F", "G", "H", "I", "J", "K", "L", "M",
    "N", "O", "P", "Q", "R", "S", "T", "U", "V", "W", "X", "Y", "Z">>

LowerSeq ==
  <<"a", "b", "c", "d", "e", "f", "g", "h", "i", "j", "k", "l", "m",
    "n", "o", "p", "q", "r", "s", "t", "u", "v", "w", "x", "y", "z">>

UpperLetters == {UpperSeq[i] : i \in 1..Len(UpperSeq)}

Digits == {"0", "1", "2", "3", "4", "5", "6", "7", "8", "9"}

\* \w of a JavaScript regular expression: [A-Za-z0-9_]
WordChars == LowerLetters \cup UpperLetters \cup Digits \cup {"_"}

LowerChar(c) ==
  IF c \in UpperLetters
  THEN LowerSeq[CHOOSE i \in 1..Len(UpperSeq) : UpperSeq[i] = c]
  ELSE c

ToLowerCase(s) == [i \in 1..Len(s) |-> LowerChar(s[i])]

\* the characters the first replace keeps: [\w\s-]
SlugKeeps(c) == c \in WordChars \/ c \in Whitespace \/ c = "-"

\* .replace(/[^\w\s-]/g, '')
RECURSIVE StripNonSlug(_)
StripNonSlug(s) ==
  IF s = <<>>
  THEN <<>>
  ELSE IF SlugKeeps(Head(s))
       THEN <<Head(s)>> \o StripNonSlug(Tail(s))
       ELSE StripNonSlug(Tail(s))

\* .replace(/\s+/g, '-')
RECURSIVE HyphenateSpaces(_)
HyphenateSpaces(s) ==
  IF s = <<>>
  THEN <<>>
  ELSE IF Head(s) \in Whitespace
       THEN <<"-">> \o HyphenateSpaces(TrimStart(s))
       ELSE <<Head(s)>> \o HyphenateSpaces(Tail(s))

\* .replace(/\s/g, '-'): one hyphen per whitespace character
HyphenateEachSpace(s) == [i \in 1..Len(s) |-> IF s[i] \in Whitespace THEN "-" ELSE s[i]]

SlugHyphenPerSpace(text) == HyphenateEachSpace(StripNonSlug(ToLowerCase(text)))

Slug(text) == HyphenateSpaces(StripNonSlug(ToLowerCase(text)))

(***************************************************************************)
(* TableOfContents: the exec loop of headingRegex over content.  The       *)
(* expression is: line start, one to three #, \s+, the rest of the line,    *)
(* line end; flags g and m.                                                *)
(***************************************************************************)
\* the characters . does not match and before which $ matches under /m
LineTerminators == {"\n", "\r"}

\* ^ under /m at the 1-based position p
AtLineStart(s, p) == p = 1 \/ s[p - 1] \in LineTerminators

\* the length of the run of character c that starts at the 1-based position p
RECURSIVE RunLength(_, _, _)
RunLength(s, c, p) ==
  IF p >= 1 /\ p <= Len(s) /\ s[p] = c THEN 1 + RunLength(s, c, p + 1) ELSE 0

\* the length of the run of characters of the set cs that starts at p
RECURSIVE RunLengthIn(_, _, _)
RunLengthIn(s, cs, p) ==
  IF p >= 1 /\ p <= Len(s) /\ s[p] \in cs THEN 1 + RunLengthIn(s, cs, p + 1) ELSE 0

\* the length of the rest of the line that starts at p: what the second group takes
RECURSIVE RestOfLine(_, _)
RestOfLine(s, p) ==
  IF p >= 1 /\ p <= Len(s) /\ s[p] \notin LineTerminators
  THEN 1 + RestOfLine(s, p + 1)
  ELSE 0

\* the expression with {1,6} in place of {1,3}
HeadingMatchesAtUpToSix(s, p) ==
  /\ p <= Len(s)
  /\ AtLineStart(s, p)
  /\ LET n == RunLength(s, "#", p)
     IN n >= 1 /\ n <= 6 /\ p + n <= Len(s) /\ s[p + n] \in Whitespace

\* Does the expression match at p?  ^ needs a line start; (#{1,3}) followed by
\* \s+ needs a run of one to three # with a whitespace character right after
\* it (after a longer run no shorter prefix is followed by whitespace).
HeadingMatchesAt(s, p) ==
  /\ p <= Len(s)
  /\ AtLineStart(s, p)
  /\ LET n == RunLength(s, "#", p)
     IN n >= 1 /\ n <= 3 /\ p + n <= Len(s) /\ s[p + n] \in Whitespace

\* a match of width zero at p, as an expression made of assertions gives;
\* exec then leaves lastIndex where the match began
HeadingMatchOfWidthZero(s, p) ==
  LET n == RunLength(s, "#", p)
      w == RunLengthIn(s, Whitespace, p + n)
      r == RestOfLine(s, p + n + w)
  IN [index |-> p - 1,
      g1 |-> SubSeq(s, p, p + n - 1),
      g2 |-> SubSeq(s, p + n + w, p + n + w + r - 1),
      lastIndex |-> p - 1]

\* The match at p: \s+ is greedy and takes the whole whitespace run, line
\* breaks included; the second group takes the rest of the line it then stands on.
HeadingMatch(s, p) ==
  LET n == RunLength(s, "#", p)
      w == RunLengthIn(s, Whitespace, p + n)
      r == RestOfLine(s, p + n + w)
  IN [index |-> p - 1,
      g1 |-> SubSeq(s, p, p + n - 1),
      g2 |-> SubSeq(s, p + n + w, p + n + w + r - 1),
      lastIndex |-> p + n + w + r - 1]

\* replace with the string '**' as the pattern: the first occurrence only
RemoveFirstBoldMarker(s) ==
  IF \E p \in 1..Len(s) : OccursAt(s, <<"*", "*">>, p)
  THEN LET p == CHOOSE p \in 1..Len(s) :
                  /\ OccursAt(s, <<"*", "*">>, p)
                  /\ \A q \in 1..(p - 1) : ~OccursAt(s, <<"*", "*">>, q)
       IN SubSeq(s, 1, p - 1) \o SubSeq(s, p + 2, Len(s))
  ELSE s

\* .replace(/\*\*/g, '')
RECURSIVE RemoveBoldMarkers(_)
RemoveBoldMarkers(s) ==
  IF s = <<>>
  THEN <<>>
  ELSE IF OccursAt(s, <<"*", "*">>, 1)
       THEN RemoveBoldMarkers(SubSeq(s, 3, Len(s)))
       ELSE <<Head(s)>> \o RemoveBoldMarkers(Tail(s))

\* the body of the while loop; index is match.index, kept to tell which line
\* an entry comes from
HeadingEntry(match) ==
  LET text == Trim(RemoveBoldMarkers(match.g2))
  IN [level |-> Len(match.g1), text |-> text, id |-> Slug(text),
      index |-> match.index]

\* the loop with an outline that keeps one entry per id
RECURSIVE ExecLoopUnique(_, _)
ExecLoopUnique(s, from) ==
  IF \E p \in from..Len(s) : HeadingMatchesAt(s, p)
  THEN LET p == CHOOSE p \in from..Len(s) :
                  /\ HeadingMatchesAt(s, p)
                  /\ \A q \in from..(p - 1) : ~HeadingMatchesAt(s, q)
           m == HeadingMatch(s, p)
           e == HeadingEntry(m)
       IN <<e>> \o SelectSeq(ExecLoopUnique(s, m.lastIndex + 1),
                             LAMBDA x : x.id # e.id)
  ELSE <<>>

\* headingRegex.exec in a loop: from now on the search starts at the 0-based
\* lastIndex, i.e. at the 1-based position from
RECURSIVE ExecLoop(_, _)
ExecLoop(s, from) ==
  IF \E p \in from..Len(s) : HeadingMatchesAt(s, p)
  THEN LET p == CHOOSE p \in from..Len(s) :
                  /\ HeadingMatchesAt(s, p)
                  /\ \A q \in from..(p - 1) : ~HeadingMatchesAt(s, q)
           m == HeadingMatch(s, p)
       IN <<HeadingEntry(m)>> \o ExecLoop(s, m.lastIndex + 1)
  ELSE <<>>

extractHeadings(content) == ExecLoop(content, 1)

\* One call headingRegex.exec(content) with the 0-based lastIndex li: the
\* first match that starts at li or later, or null.
ExecFrom(s, li) ==
  IF \E p \in (li + 1)..Len(s) : HeadingMatchesAt(s, p)
  THEN LET p == CHOOSE p \in (li + 1)..Len(s) :
                  /\ HeadingMatchesAt(s, p)
                  /\ \A q \in (li + 1)..(p - 1) : ~HeadingMatchesAt(s, q)
       IN [found |-> TRUE, match |-> HeadingMatch(s, p)]
  ELSE [found |-> FALSE]

\* what TableOfContents has returned while it is still running
Pending == [returned |-> FALSE]

\* the nav that is never null
TableOfContentsAlwaysNav(hs) ==
  [returned |-> TRUE,
   null |-> FALSE,
   links |-> [i \in 1..Len(hs) |->
                [href |-> <<"#">> \o hs[i].id, text |-> hs[i].text,
                 level |-> hs[i].level]]]

\* if (headings.length === 0) return null; return <nav> ... one link per
\* entry, with href # followed by item.id and the text item.text
TableOfContentsReturn(hs) ==
  IF Len(hs) = 0
  THEN [returned |-> TRUE, null |-> TRUE, links |-> <<>>]
  ELSE [returned |-> TRUE,
        null |-> FALSE,
        links |-> [i \in 1..Len(hs) |->
                     [href |-> <<"#">> \o hs[i].id, text |-> hs[i].text,
                      level |-> hs[i].level]]]

(***************************************************************************)
(* ReactMarkdown on one prose text, as far as the h1/h2/h3 components of   *)
(* BlogPost see it: which lines become headings of level 1 to 3, and the   *)
(* children each component receives.  Covered: ATX headings (indentation   *)
(* of up to three spaces, optional closing run of #), a backtick fence     *)
(* that opens a code block, and strong emphasis written as two asterisks   *)
(* around a word.  The input documents below use no other construct.      *)
(***************************************************************************)
Blank == {" ", "\t"}

RECURSIVE StripBlankStart(_)
StripBlankStart(s) ==
  IF s # <<>> /\ Head(s) \in Blank THEN StripBlankStart(Tail(s)) ELSE s

RECURSIVE StripBlankEnd(_)
StripBlankEnd(s) ==
  IF s # <<>> /\ s[Len(s)] \in Blank
  THEN StripBlankEnd(SubSeq(s, 1, Len(s) - 1))
  ELSE s

\* the length of the run of # that ends s
RECURSIVE TrailingHashes(_)
TrailingHashes(s) ==
  IF s # <<>> /\ s[Len(s)] = "#"
  THEN 1 + TrailingHashes(SubSeq(s, 1, Len(s) - 1))
  ELSE 0

\* the content of an ATX heading: raw is the line after the opening run of #
AtxContent(raw) ==
  LET t == StripBlankEnd(raw)
      k == TrailingHashes(t)
      closed == k > 0 /\ (k = Len(t) \/ t[Len(t) - k] \in Blank)
      u == IF closed THEN StripBlankEnd(SubSeq(t, 1, Len(t) - k)) ELSE t
  IN StripBlankStart(u)

\* the level of the ATX heading that the line ln is, or 0
AtxLevel(ln) ==
  LET indent == RunLength(ln, " ", 1)
      n == RunLength(ln, "#", indent + 1)
  IN IF /\ indent <= 3
        /\ n >= 1
        /\ n <= 6
        /\ (indent + n = Len(ln) \/ ln[indent + n + 1] \in Blank)
     THEN n
     ELSE 0

\* does the line ln open a fenced code block
OpensFence(ln) ==
  LET indent == RunLength(ln, " ", 1)
      b == RunLength(ln, BT, indent + 1)
  IN /\ indent <= 3
     /\ b >= 3
     /\ \A i \in (indent + b + 1)..Len(ln) : ln[i] # BT

\* the inline nodes of a heading: text, and one element per strong span;
\* acc is the text read since the last node
RECURSIVE InlineNodes(_, _)
InlineNodes(s, acc) ==
  LET flush == IF acc = <<>> THEN <<>> ELSE <<[kind |-> "text", value |-> acc]>>
  IN IF s = <<>>
     THEN flush
     ELSE IF /\ OccursAt(s, <<"*", "*">>, 1)
             /\ \E j \in 4..Len(s) : OccursAt(s, <<"*", "*">>, j)
          THEN LET j == CHOOSE j \in 4..Len(s) :
                          /\ OccursAt(s, <<"*", "*">>, j)
                          /\ \A k \in 4..(j - 1) : ~OccursAt(s, <<"*", "*">>, k)
               IN flush \o <<[kind |-> "element", value |-> SubSeq(s, 3, j - 1)]>>
                    \o InlineNodes(SubSeq(s, j + 2, Len(s)), <<>>)
          ELSE InlineNodes(Tail(s), acc \o <<Head(s)>>)

\* String(x) of a React element
ObjectObject ==
  <<"[", "o", "b", "j", "e", "c", "t", " ", "O", "b", "j", "e", "c", "t", "]">>

NodeToString(n) == IF n.kind = "text" THEN n.value ELSE ObjectObject

\* children.toString(): a single child is passed as itself, several as an
\* array, whose toString joins the items with commas
RECURSIVE ChildrenToString(_)
ChildrenToString(nodes) ==
  IF Len(nodes) = 1
  THEN NodeToString(nodes[1])
  ELSE NodeToString(nodes[1]) \o <<",">> \o ChildrenToString(Tail(nodes))

\* an id derivation that has lost its toLowerCase()
idWithoutLowerCase(children) ==
  HyphenateSpaces(StripNonSlug(ChildrenToString(children)))

\* The six heading components: three in the components of the ReactMarkdown
\* of a piece of a prose segment split at the placeholder, three in the
\* components of the ReactMarkdown of an unsplit prose segment.  Each has
\* its own const id = children?.toString().toLowerCase()
\* .replace(/[^\w\s-]/g, '').replace(/\s+/g, '-').
h1SplitId(children) ==
  HyphenateSpaces(StripNonSlug(ToLowerCase(ChildrenToString(children))))

h2SplitId(children) ==
  HyphenateSpaces(StripNonSlug(ToLowerCase(ChildrenToString(children))))

h3SplitId(children) ==
  HyphenateSpaces(StripNonSlug(ToLowerCase(ChildrenToString(children))))

h1RegularId(children) ==
  HyphenateSpaces(StripNonSlug(ToLowerCase(ChildrenToString(children))))

h2RegularId(children) ==
  HyphenateSpaces(StripNonSlug(ToLowerCase(ChildrenToString(children))))

h3RegularId(children) ==
  HyphenateSpaces(StripNonSlug(ToLowerCase(ChildrenToString(children))))

\* the component ReactMarkdown calls for a heading of that level in that
\* branch of the JSX
HeadingId(branch, level, children) ==
  IF branch = "split"
  THEN (CASE level = 1 -> h1SplitId(children)
          [] level = 2 -> h2SplitId(children)
          [] level = 3 -> h3SplitId(children))
  ELSE (CASE level = 1 -> h1RegularId(children)
          [] level = 2 -> h2RegularId(children)
          [] level = 3 -> h3RegularId(children))

\* The element a heading component returns; a heading without content has
\* no children, and id is undefined.
HeadingElement(branch, level, line, nodes) ==
  [branch |-> branch,
   level |-> level,
   line |-> line,
   children |-> nodes,
   hasId |-> nodes # <<>>,
   id |-> IF nodes = <<>> THEN <<>> ELSE HeadingId(branch, level, nodes)]

\* the heading elements of the prose text src, from the line that starts at
\* the 1-based position p on
RECURSIVE MarkdownHeadingsFrom(_, _, _, _)
MarkdownHeadingsFrom(branch, src, p, inFence) ==
  IF p > Len(src)
  THEN <<>>
  ELSE LET r == RestOfLine(src, p)
           ln == SubSeq(src, p, p + r - 1)
           level == AtxLevel(ln)
           indent == RunLength(ln, " ", 1)
           here == IF ~inFence /\ level >= 1 /\ level <= 3
                   THEN <<HeadingElement(branch, level, p - 1,
                            InlineNodes(
                              AtxContent(SubSeq(ln, indent + level + 1, Len(ln))),
                              <<>>))>>
                   ELSE <<>>
       IN here \o MarkdownHeadingsFrom(branch, src, p + r + 1,
                                    inFence \/ OpensFence(ln))

MarkdownHeadings(branch, src) == MarkdownHeadingsFrom(branch, src, 1, FALSE)

(***************************************************************************)
(* CodeBlock: what it hands to the highlighter.                            *)
(***************************************************************************)
\* String(children).replace(/\n$/, "")
StripFinalNewline(s) ==
  IF s # <<>> /\ s[Len(s)] = NL THEN SubSeq(s, 1, Len(s) - 1) ELSE s

codeString(children) == StripFinalNewline(children)

(***************************************************************************)
(* The JSX BlogPost returns: the outline before the content when the       *)
(* document has no placeholder (once for the desktop sidebar, once for     *)
(* the mobile top), then one group of items per processed part.            *)
(***************************************************************************)
TocItem(where, part) == [kind |-> "toc", where |-> where, part |-> part]

\* branch tells which of the two ReactMarkdown elements of the JSX it is
MarkdownItem(branch, src, part, piece) ==
  [kind |-> "markdown", part |-> part, piece |-> piece, source |-> src,
   elements |-> MarkdownHeadings(branch, src)]

\* the outline test off by one: no outline before the second piece
RECURSIVE RenderPiecesSkipFirst(_, _, _)
RenderPiecesSkipFirst(splitContent, part, index) ==
  IF index > Len(splitContent)
  THEN <<>>
  ELSE (IF index > 2 THEN <<TocItem("inline", part)>> ELSE <<>>)
       \o (IF splitContent[index] # <<>>
           THEN <<MarkdownItem("split", splitContent[index], part, index)>>
           ELSE <<>>)
       \o RenderPiecesSkipFirst(splitContent, part, index + 1)

\* part.splitContent.map: before every piece but the first the outline, then
\* the piece unless it is empty
RECURSIVE RenderPieces(_, _, _)
RenderPieces(splitContent, part, index) ==
  IF index > Len(splitContent)
  THEN <<>>
  ELSE (IF index > 1 THEN <<TocItem("inline", part)>> ELSE <<>>)
       \o (IF splitContent[index] # <<>>
           THEN <<MarkdownItem("split", splitContent[index], part, index)>>
           ELSE <<>>)
       \o RenderPieces(splitContent, part, index + 1)

\* the prose rendered from part.content, where processContent took out the
\* first placeholder only, and never from splitContent
RenderPartFromContent(part, i) ==
  IF part.type = "code"
  THEN <<[kind |-> "code", part |-> i, language |-> part.language,
          code |-> codeString(part.code)]>>
  ELSE <<MarkdownItem("regular", part.content, i, 1)>>

\* the callback of processedParts.map; i is the 1-based position of the part;
\* CodeBlock takes the prefix language- off the className again
RenderPart(part, i) ==
  IF part.type = "code"
  THEN <<[kind |-> "code", part |-> i, language |-> part.language,
          code |-> codeString(part.code)]>>
  ELSE IF "splitContent" \in DOMAIN part
       THEN RenderPieces(part.splitContent, i, 1)
       ELSE <<MarkdownItem("regular", part.content, i, 1)>>

RECURSIVE RenderParts(_, _)
RenderParts(parts, i) ==
  IF i > Len(parts)
  THEN <<>>
  ELSE RenderPart(parts[i], i) \o RenderParts(parts, i + 1)

RenderBlogPost(content, parts) ==
  (IF ~hasTocPlaceholder(content)
   THEN <<TocItem("sidebar", 0), TocItem("mobile", 0)>>
   ELSE <<>>)
  \o RenderParts(parts, 1)

(***************************************************************************)
(* Input documents: concatenations of a few chunks.                        *)
(***************************************************************************)
RECURSIVE DocsUpTo(_, _)
DocsUpTo(chunks, n) ==
  IF n = 0
  THEN {<<>>}
  ELSE LET prev == DocsUpTo(chunks, n - 1)
       IN prev \cup {d \o c : d \in prev, c \in chunks}

\* fences, stray backticks, blank and plain text, the placeholder
SegChunks == {Fence, <<BT>>, <<NL>>, <<SP>>, <<"a">>, TOC_PLACEHOLDER}

\* heading markers of every depth, blank, line break and plain text
HeadChunks == {<<"#">>, <<"#", "#", "#", "#">>, <<SP>>, <<NL>>, <<"a">>}

\* a word in strong emphasis
BoldWord == <<"*", "*", "b", "*", "*">>

\* a plain heading line
HeadingA == <<"#", SP, "a">>

\* heading lines with and without emphasised words
TocChunks == {HeadingA, <<SP>>, <<NL>>, <<"a">>, BoldWord}

\* heading lines in prose, next to fences and inside them
FenceChunks == {HeadingA, <<SP>>, <<NL>>, <<"a">>, Fence}

IsBacktick(c) == c = BT

\* every fence is closed: the fences pair up, each closing the one before
FencesClosed(d) == Len(SelectSeq(d, IsBacktick)) % (2 * Len(Fence)) = 0

\* every fence is a line of its own
FencesOnOwnLines(d) ==
  \A i \in 1..Len(d) :
    d[i] = BT =>
      \E p \in (i - 2)..i :
        /\ OccursAt(d, Fence, p)
        /\ p = 1 \/ d[p - 1] = NL
        /\ p + Len(Fence) > Len(d) \/ d[p + Len(Fence)] = NL

FenceDocs ==
  {d \in DocsUpTo(FenceChunks, MaxFenceChunks) : FencesClosed(d) /\ FencesOnOwnLines(d)}

\* every emphasised word stands alone: blank or a text boundary on both sides
BoldDelimited(d) ==
  \A i \in 1..Len(d) :
    OccursAt(d, BoldWord, i) =>
      /\ i = 1 \/ d[i - 1] \in {SP, NL}
      /\ i + Len(BoldWord) > Len(d) \/ d[i + Len(BoldWord)] \in {SP, NL}

TocDocs == {d \in DocsUpTo(TocChunks, MaxTocChunks) : BoldDelimited(d)}

\* heading texts: letters of both cases, a digit, blank, hyphen, punctuation
\* and a word with an underscore inside
SnakeWord == <<"a", "_", "b">>

SlugChunks == {<<"a">>, <<"A">>, <<"1">>, <<SP>>, <<"-">>, <<"!">>, SnakeWord}

HeadingPrefixes == {<<"#", SP>>, <<"#", "#", SP>>, <<"#", "#", "#", SP>>}

\* one-line documents: a heading of level 1 to 3 with such a text
SlugDocs == {h \o t : h \in HeadingPrefixes, t \in DocsUpTo(SlugChunks, MaxSlugChunks)}

(***************************************************************************)
(* One render pass of BlogPost: the function body up to the JSX, the JSX,  *)
(* then TableOfContents, which React calls when the JSX mounts an outline. *)
(***************************************************************************)
\* no blog post is being rendered
PostIdle ==
  /\ doc = <<>>
  /\ pc = "idle"
  /\ contentParts = <<>>
  /\ processedParts = <<>>
  /\ view = <<>>
  /\ headings = <<>>
  /\ lastIndex = 0
  /\ outline = Pending
  /\ activeId = <<>>
  /\ observed = {}
  /\ firstRender = [done |-> FALSE]

InitWith(docs) ==
  /\ doc \in docs
  /\ pc = "start"
  /\ contentParts = <<>>
  /\ processedParts = <<>>
  /\ view = <<>>
  /\ headings = <<>>
  /\ lastIndex = 0
  /\ outline = Pending
  /\ activeId = <<>>
  /\ observed = {}
  /\ firstRender = [done |-> FALSE]
  /\ OtherPagesIdle

\* const contentParts = preprocessMarkdown(post.content || "")
Preprocess ==
  /\ pc = "start"
  /\ contentParts' = preprocessMarkdown(doc)
  /\ pc' = "parts"
  /\ UNCHANGED <<doc, processedParts, view, headings, tocState, activeState, firstRender, otherPages>>

\* const processedParts = contentParts.map(...)
Process ==
  /\ pc = "parts"
  /\ processedParts' = [i \in 1..Len(contentParts) |-> ProcessPart(contentParts[i])]
  /\ pc' = "processed"
  /\ UNCHANGED <<doc, contentParts, view, headings, tocState, activeState, firstRender, otherPages>>

\* return ( ... )
Render ==
  /\ pc = "processed"
  /\ view' = RenderBlogPost(doc, processedParts)
  /\ pc' = "rendered"
  /\ UNCHANGED <<doc, contentParts, processedParts, headings, tocState, activeState, firstRender, otherPages>>

\* TableOfContents({ content }), for the outline(s) the JSX holds: the whole
\* call in one step; the last exec returns null and leaves lastIndex at 0
RenderToc ==
  /\ pc = "rendered"
  /\ \E i \in 1..Len(view) : view[i].kind = "toc"
  /\ headings' = extractHeadings(doc)
  /\ outline' = TableOfContentsReturn(headings')
  /\ pc' = "done"
  /\ UNCHANGED <<doc, contentParts, processedParts, view, lastIndex, activeState, firstRender, otherPages>>

Next == Preprocess \/ Process \/ Render \/ RenderToc

InitSeg == InitWith(DocsUpTo(SegChunks, MaxSegChunks))
SpecSeg == InitSeg /\ [][Next]_vars

InitHead == InitWith(DocsUpTo(HeadChunks, MaxHeadChunks))
SpecHead == InitHead /\ [][Next]_vars

InitToc == InitWith(TocDocs)
SpecToc == InitToc /\ [][Next]_vars

InitFence == InitWith(FenceDocs)
SpecFence == InitFence /\ [][Next]_vars

\* a heading, a fence, a line break and the placeholder: outlines in prose,
\* in code and absent
PlaceChunks == {HeadingA, <<NL>>, Fence, TOC_PLACEHOLDER}

InitPlace == InitWith(DocsUpTo(PlaceChunks, MaxPlaceChunks))
SpecPlace == InitPlace /\ [][Next]_vars

InitSlug == InitWith(SlugDocs)
SpecSlug == InitSlug /\ [][Next]_vars

(***************************************************************************)
(* TableOfContents on its own, one statement at a time: the component is   *)
(* called with content = doc (pc = "mount"), creates headingRegex and the  *)
(* headings array, runs the exec loop and returns.                         *)
(***************************************************************************)
InitOutline(docs) ==
  /\ doc \in docs
  /\ pc = "mount"
  /\ contentParts = <<>>
  /\ processedParts = <<>>
  /\ view = <<>>
  /\ headings = <<>>
  /\ lastIndex = 0
  /\ outline = Pending
  /\ activeId = <<>>
  /\ observed = {}
  /\ firstRender = [done |-> FALSE]
  /\ OtherPagesIdle

\* an array that outlives the call: it still holds the entries of the call
\* before
HoistedHeadingsArray(previous) == previous

\* const headings = [] inside the component: an empty array for every call,
\* whatever the array of the call before holds
NewHeadingsArray(previous) == <<>>

\* const headingRegex = /.../gm inside the component: a new RegExp for every
\* call, its lastIndex 0 whatever the one of the call before was
NewRegexLastIndex(previous) == 0

\* const headingRegex = /.../gm; let match; const headings = [];
\* the component is called on its own or for an outline of the article
TocMount ==
  /\ \/ pc = "mount"
     \/ pc = "rendered" /\ \E i \in 1..Len(view) : view[i].kind = "toc"
  /\ lastIndex' = NewRegexLastIndex(lastIndex)
  /\ headings' = NewHeadingsArray(headings)
  /\ outline' = Pending
  /\ pc' = "loop"
  /\ UNCHANGED <<doc, contentParts, processedParts, view, activeState, firstRender, otherPages>>

\* one iteration of the while loop: exec finds a match, sets lastIndex to
\* its end, and the body pushes the entry
ExecMatch ==
  /\ pc = "loop"
  /\ ExecFrom(doc, lastIndex).found
  /\ LET m == ExecFrom(doc, lastIndex).match
     IN /\ lastIndex' = m.lastIndex
        /\ headings' = Append(headings, HeadingEntry(m))
  /\ UNCHANGED <<doc, pc, contentParts, processedParts, view, outline, activeState, firstRender, otherPages>>

\* exec finds no match: it sets lastIndex to 0 and returns null, the loop
\* ends and the component returns null or the nav
ExecNull ==
  /\ pc = "loop"
  /\ ~ExecFrom(doc, lastIndex).found
  /\ lastIndex' = 0
  /\ outline' = TableOfContentsReturn(headings)
  /\ pc' = "done"
  /\ UNCHANGED <<doc, contentParts, processedParts, view, headings, activeState, firstRender, otherPages>>

TocNext == TocMount \/ ExecMatch \/ ExecNull

(***************************************************************************)
(* The TableOfContents with active-section tracking (src/unnamed/part_003):*)
(* the same extraction and return, then an effect that observes the        *)
(* heading elements of the page, and click handlers on the links.  The     *)
(* page is the article BlogPost rendered; an element is named by its       *)
(* position among the heading elements that carry an id attribute.         *)
(***************************************************************************)
HasIdAttribute(e) == e.hasId

\* the id attributes of the heading elements, in document order
RECURSIVE ElementIds(_)
ElementIds(items) ==
  IF items = <<>>
  THEN <<>>
  ELSE (IF Head(items).kind = "markdown"
        THEN LET es == SelectSeq(Head(items).elements, HasIdAttribute)
             IN [j \in 1..Len(es) |-> es[j].id]
        ELSE <<>>)
       \o ElementIds(Tail(items))

\* document.getElementById(id): the first element with that id, 0 for null;
\* no element is found for the empty id
getElementById(dom, id) ==
  IF id # <<>> /\ \E e \in 1..Len(dom) : dom[e] = id
  THEN CHOOSE e \in 1..Len(dom) :
         dom[e] = id /\ \A f \in 1..(e - 1) : dom[f] # id
  ELSE 0

\* an observer on every heading element of the page
ObserveEveryElement(hs, dom) == 1..Len(dom)

\* headings.forEach(({ id }) => { const element = document.getElementById(id);
\* if (element) observer.observe(element); })
ObserveHeadings(hs, dom) ==
  {getElementById(dom, hs[i].id) : i \in 1..Len(hs)} \ {0}

\* const isActive = activeId === item.id
isActive(item) == activeId = item.id

\* useEffect(() => { ... }, [headings]) after the component has returned
RunEffect ==
  /\ pc = "done"
  /\ observed' = ObserveHeadings(headings, ElementIds(view))
  /\ pc' = "observing"
  /\ UNCHANGED <<doc, contentParts, processedParts, view, headings, tocState,
                 activeId, firstRender, otherPages>>

\* The observer callback with entry as its last intersecting entry:
\* setActiveId(entry.target.id).  The component renders again: the same
\* headings are extracted, the cleanup unobserves and the effect observes
\* the elements again.
Intersect ==
  /\ pc = "observing"
  /\ \E entry \in observed :
       /\ activeId' = ElementIds(view)[entry]
       /\ headings' = extractHeadings(doc)
       /\ outline' = TableOfContentsReturn(headings')
       /\ observed' = ObserveHeadings(headings', ElementIds(view))
  /\ UNCHANGED <<doc, pc, contentParts, processedParts, view, lastIndex, firstRender, otherPages>>

\* onClick of the link of item: if the element exists, scroll to it and
\* setActiveId(item.id); then the same render and effect as above
ClickLink ==
  /\ pc = "observing"
  /\ \E i \in 1..Len(headings) :
       /\ activeId' = IF getElementById(ElementIds(view), headings[i].id) # 0
                      THEN headings[i].id
                      ELSE activeId
       /\ headings' = extractHeadings(doc)
       /\ outline' = TableOfContentsReturn(headings')
       /\ observed' = ObserveHeadings(headings', ElementIds(view))
  /\ UNCHANGED <<doc, pc, contentParts, processedParts, view, lastIndex, firstRender, otherPages>>

ActiveNext ==
  Preprocess \/ Process \/ Render \/ RenderToc \/ RunEffect \/ Intersect \/ ClickLink

InitActive == InitWith(TocDocs)
SpecActive == InitActive /\ [][ActiveNext]_vars

\* BlogPost and its outline, statement by statement
StepNext == Preprocess \/ Process \/ Render \/ TocMount \/ ExecMatch \/ ExecNull

\* fences closed and unclosed, heading markers with and without the blank,
\* line breaks and plain text
TotalChunks == {Fence, <<"#", SP>>, <<"#">>, <<NL>>, <<"a">>}

\* no backtick on a line after a heading marker
HeadingLinesPlain(d) ==
  \A i \in 1..Len(d) :
    d[i] = "#" => \A j \in i..(i + RestOfLine(d, i) - 1) : d[j] # BT

TotalDocs == {d \in DocsUpTo(TotalChunks, MaxTotalChunks) : HeadingLinesPlain(d)}

InitTotal == InitWith(TotalDocs)
SpecTotal == InitTotal /\ [][StepNext]_vars

\* a heading line with its line break
HeadingLine == <<"#", SP, "a", NL>>

\* heading lines and fences
RenderChunks == {HeadingLine, Fence}

RenderDocs == DocsUpTo(RenderChunks, MaxRenderChunks)

\* React calls BlogPost again, with the same post or another one: a new
\* call, whose contentParts, processedParts and JSX are yet to be computed;
\* what the last TableOfContents call left behind is kept here, so that
\* TocMount decides what the next call starts from.  The first completed
\* render is written down, and whether another document has been rendered
\* since.
Rerender ==
  /\ pc = "done"
  /\ doc' \in RenderDocs
  /\ pc' = "start"
  /\ contentParts' = <<>>
  /\ processedParts' = <<>>
  /\ view' = <<>>
  /\ firstRender' =
       IF firstRender.done
       THEN [firstRender EXCEPT !.otherSince = @ \/ doc' # firstRender.doc]
       ELSE [done |-> TRUE, doc |-> doc, contentParts |-> contentParts,
             headings |-> headings, outline |-> outline,
             otherSince |-> doc' # doc]
  /\ UNCHANGED <<headings, tocState, activeState, otherPages>>

RerenderNext == StepNext \/ Rerender

InitRerender == InitWith(RenderDocs)
SpecRerender == InitRerender /\ [][RerenderNext]_vars

\* heading contents of both cases, with blanks and emphasised words
SixChunks == {<<"a">>, <<"A">>, <<SP>>, BoldWord}

\* one heading of level 1 to 3, in a prose segment with or without a
\* placeholder before it
SixDocs ==
  {pre \o h \o t :
     pre \in {<<>>, TOC_PLACEHOLDER \o <<NL>>},
     h \in HeadingPrefixes,
     t \in {d \in DocsUpTo(SixChunks, MaxSixChunks) : BoldDelimited(d)}}

InitSix == InitWith(SixDocs)
SpecSix == InitSix /\ [][Next]_vars

\* heading texts with asterisks in every arrangement
StarChunks == {<<"*">>, <<SP>>, <<"a">>}

StarDocs == {<<"#", SP>> \o t : t \in DocsUpTo(StarChunks, MaxStarChunks)}

InitStars == InitOutline(StarDocs)
SpecStars == InitStars /\ [][TocNext]_vars

(***************************************************************************)
(* Properties of segmentation and placeholder handling (SpecSeg).          *)
(***************************************************************************)
\* the text span of each segment: the parts of the split, in order
Spans == SplitFences(doc)

\* a complete opening fence ... closing fence span
IsFencedSpan(sp) == Len(sp) >= 6 /\ StartsWith(sp, Fence) /\ EndsWith(sp, Fence)

Rendered == pc \in {"rendered", "done"}

\* C1: the segments of preprocessMarkdown(d) partition d without loss: there is
\* one segment per part of the split, in document order (the id carries the
\* position), a prose segment holds its span unchanged, a code segment comes
\* from a span that starts with a fence, and the spans concatenated are d.
C1_LosslessPartition ==
  pc # "start" =>
    /\ Len(contentParts) = Len(Spans)
    /\ Flatten(Spans) = doc
    /\ \A i \in 1..Len(contentParts) :
         /\ contentParts[i].id[2] = i - 1
         /\ contentParts[i].type = "markdown" => contentParts[i].content = Spans[i]
         /\ contentParts[i].type = "code" => StartsWith(Spans[i], Fence)

\* C1 witness: a document split into prose, fenced code and prose again
C1_Witness ==
  /\ pc = "parts"
  /\ Len(contentParts) >= 3
  /\ contentParts[1].type = "markdown" /\ contentParts[1].content # <<>>
  /\ contentParts[2].type = "code"
  /\ contentParts[3].type = "markdown" /\ contentParts[3].content # <<>>

\* C4: a segment is tagged code only if its span is a complete opening-fence
\* ... closing-fence span; text with an unclosed fence stays prose.
C4_CodeOnlyFromClosedFence ==
  pc # "start" =>
    \A i \in 1..Len(contentParts) :
      contentParts[i].type = "code" => IsFencedSpan(Spans[i])

\* the body of a fenced span with a line break: after the first line break,
\* up to the closing fence
FenceBody(sp) == SubSeq(sp, IndexOf(sp, NL) + 2, Len(sp) - 3)

\* C5: for a fenced span with a line break after the opening fence, the code
\* handed to the highlighter is the body with at most one trailing line break
\* removed, all other leading and trailing whitespace kept.
C5_BodyKeepsWhitespace ==
  Rendered =>
    \A k \in 1..Len(view) :
      (/\ view[k].kind = "code"
       /\ IsFencedSpan(Spans[view[k].part])
       /\ IndexOf(Spans[view[k].part], NL) >= 0)
      => view[k].code \in {FenceBody(Spans[view[k].part]),
                           StripFinalNewline(FenceBody(Spans[view[k].part]))}

CountOccurrences(s, t) == Cardinality({p \in 1..Len(s) : OccursAt(s, t, p)})

\* the items rendered for part i, in order
RECURSIVE ItemsOfPart(_, _)
ItemsOfPart(items, i) ==
  IF items = <<>>
  THEN <<>>
  ELSE IF Head(items).part = i
       THEN <<Head(items)>> \o ItemsOfPart(Tail(items), i)
       ELSE ItemsOfPart(Tail(items), i)

\* the source text a rendered sequence stands for: prose as is, the
\* placeholder for each outline
RECURSIVE SourceOf(_)
SourceOf(items) ==
  IF items = <<>>
  THEN <<>>
  ELSE (IF Head(items).kind = "toc" THEN TOC_PLACEHOLDER ELSE Head(items).source)
       \o SourceOf(Tail(items))

CountToc(items) == Cardinality({k \in 1..Len(items) : items[k].kind = "toc"})

\* C7: for a prose segment with k >= 1 placeholders, tocPositions is k, the
\* outline is rendered k times for it, and the rendered pieces and outlines,
\* in order, stand where the text and the placeholders stood.
C7_OutlineAtEachPlaceholder ==
  Rendered =>
    \A i \in 1..Len(contentParts) :
      (/\ contentParts[i].type = "markdown"
       /\ CountOccurrences(contentParts[i].content, TOC_PLACEHOLDER) >= 1)
      => LET k == CountOccurrences(contentParts[i].content, TOC_PLACEHOLDER)
             items == ItemsOfPart(view, i)
         IN /\ "tocPositions" \in DOMAIN processedParts[i]
            /\ processedParts[i].tocPositions = k
            /\ CountToc(items) = k
            /\ SourceOf(items) = contentParts[i].content

\* C7 witness: text, placeholder, text, placeholder in one prose segment
C7_Witness ==
  /\ Rendered
  /\ \E i \in 1..Len(processedParts) :
       /\ "splitContent" \in DOMAIN processedParts[i]
       /\ processedParts[i].tocPositions = 2
       /\ processedParts[i].splitContent[1] # <<>>
       /\ processedParts[i].splitContent[2] # <<>>
       /\ CountToc(ItemsOfPart(view, i)) = 2

(***************************************************************************)
(* Properties of heading extraction (SpecHead, SpecToc, SpecFence).        *)
(***************************************************************************)
\* the 0-based offset in doc at which the span of part i starts
PartOffset(i) == Len(Flatten(SubSeq(Spans, 1, i - 1)))

\* the 0-based offset, within its part, of piece j of a split prose part
RECURSIVE PieceOffset(_, _)
PieceOffset(splitContent, j) ==
  IF j <= 1
  THEN 0
  ELSE PieceOffset(splitContent, j - 1)
       + Len(splitContent[j - 1]) + Len(TOC_PLACEHOLDER)

\* the 0-based offset in doc of the line of heading element e of view item it
AbsoluteLine(it, e) ==
  PartOffset(it.part)
  + (IF "splitContent" \in DOMAIN processedParts[it.part]
     THEN PieceOffset(processedParts[it.part].splitContent, it.piece)
     ELSE 0)
  + e.line

\* the heading elements present in the rendered article
RenderedElements ==
  {<<k, j>> \in (1..Len(view)) \X (1..Len(doc)) :
     view[k].kind = "markdown" /\ j <= Len(view[k].elements)}

\* C2: the id of an outline entry equals the id attribute the h1/h2/h3
\* renderer gives the heading element of the same line.
C2_OutlineIdIsElementId ==
  pc = "done" =>
    \A i \in 1..Len(headings) :
      \A kj \in RenderedElements :
        LET e == view[kj[1]].elements[kj[2]]
        IN AbsoluteLine(view[kj[1]], e) = headings[i].index
           => e.hasId /\ e.id = headings[i].id

\* C3: every outline link targets the id of a heading element that is present
\* in the rendered article.
C3_OutlineLinksResolve ==
  pc = "done" =>
    \A i \in 1..Len(headings) :
      \E kj \in RenderedElements :
        LET e == view[kj[1]].elements[kj[2]]
        IN e.hasId /\ e.id = headings[i].id

\* C8: every entry starts at a line start, its level is the length of the run
\* of # there and lies in 1..3, and whitespace follows the run; so a line with
\* four or more #, or without whitespace after the #, yields no entry.
C8_HeadingLevels ==
  pc = "done" =>
    /\ \A i \in 1..Len(headings) :
         LET p == headings[i].index + 1
         IN /\ AtLineStart(doc, p)
            /\ headings[i].level \in 1..3
            /\ headings[i].level = RunLength(doc, "#", p)
            /\ p + headings[i].level <= Len(doc)
            /\ doc[p + headings[i].level] \in Whitespace
    /\ \A p \in 1..Len(doc) :
         (/\ AtLineStart(doc, p)
          /\ \/ RunLength(doc, "#", p) >= 4
             \/ p + RunLength(doc, "#", p) > Len(doc)
             \/ doc[p + RunLength(doc, "#", p)] \notin Whitespace)
         => \A i \in 1..Len(headings) : headings[i].index # p - 1

\* C8 witness: an outline with an entry, of a document that also has a line
\* of four # which gave none
C8_Witness ==
  /\ pc = "done"
  /\ Len(headings) >= 1
  /\ \E p \in 1..Len(doc) :
       /\ AtLineStart(doc, p)
       /\ RunLength(doc, "#", p) >= 4
       /\ \A i \in 1..Len(headings) :
            headings[i].index + 1 + RestOfLine(doc, headings[i].index + 1) < p

\* C9: the text of an entry is the rest of the line that carries its # marker
\* (bold markers stripped, trimmed).
C9_TextFromSameLine ==
  pc = "done" =>
    \A i \in 1..Len(headings) :
      LET p == headings[i].index + 1
          n == headings[i].level
      IN headings[i].text
           = Trim(RemoveBoldMarkers(SubSeq(doc, p + n, p + RestOfLine(doc, p) - 1)))

(***************************************************************************)
(* Properties of the slug derivation (SpecSlug).                           *)
(***************************************************************************)
IsWordChar(c) == c \in WordChars
IsNotHyphen(c) == c # "-"
IsHyphen(c) == c = "-"
IsSlugInput(c) == c \in WordChars \/ c \in Whitespace \/ c = "-"

\* the number of maximal whitespace runs of s
WhitespaceRuns(s) ==
  Cardinality({i \in 1..Len(s) :
                 s[i] \in Whitespace /\ (i = 1 \/ s[i - 1] \notin Whitespace)})

\* C10 as claimed: a slug consists of lower-case letters, digits and hyphens.
SlugIsLettersDigitsHyphens(id) ==
  \A i \in 1..Len(id) : id[i] \in LowerLetters \cup Digits \cup {"-"}

\* C10 as amended, for the slug id derived from text: id consists of
\* lower-case letters, digits, underscores and hyphens; its characters other
\* than hyphens are the word characters of the lower-cased text, in order;
\* and it has one hyphen per hyphen of the text and one per maximal whitespace
\* run left once the other characters are removed.
SlugShape(text, id) ==
  /\ \A i \in 1..Len(id) : id[i] \in LowerLetters \cup Digits \cup {"_", "-"}
  /\ SelectSeq(id, IsNotHyphen) = SelectSeq(ToLowerCase(text), IsWordChar)
  /\ Len(SelectSeq(id, IsHyphen))
       = Len(SelectSeq(text, IsHyphen))
         + WhitespaceRuns(SelectSeq(text, IsSlugInput))

C10_SlugLettersDigitsHyphens ==
  pc = "done" =>
    /\ \A i \in 1..Len(headings) : SlugIsLettersDigitsHyphens(headings[i].id)
    /\ \A kj \in RenderedElements :
         SlugIsLettersDigitsHyphens(view[kj[1]].elements[kj[2]].id)

C10_SlugShape ==
  pc = "done" =>
    /\ \A i \in 1..Len(headings) : SlugShape(headings[i].text, headings[i].id)
    /\ \A kj \in RenderedElements :
         LET e == view[kj[1]].elements[kj[2]]
         IN e.hasId => SlugShape(ChildrenToString(e.children), e.id)

\* C10 witness: a heading text with punctuation, blank and an underscore, and
\* its slug
C10_Witness ==
  /\ pc = "done"
  /\ \E i \in 1..Len(headings) :
       /\ \E j \in 1..Len(headings[i].text) : headings[i].text[j] = "!"
       /\ \E j \in 1..Len(headings[i].text) : headings[i].text[j] = SP
       /\ \E j \in 1..Len(headings[i].id) : headings[i].id[j] = "_"
       /\ \E j \in 1..Len(headings[i].id) : headings[i].id[j] = "-"
       /\ \A j \in 1..Len(headings[i].id) : headings[i].id[j] # "!"

(***************************************************************************)
(* Claims about TableOfContents alone.                                     *)
(***************************************************************************)
HasNoEdgeWhitespace(t) ==
  t = <<>> \/ (t[1] \notin Whitespace /\ t[Len(t)] \notin Whitespace)

\* C11: every heading entry's text contains no ** and has no leading or
\* trailing whitespace, whatever the asterisks of the heading line are.
C11_TextWithoutBoldMarkers ==
  \A i \in 1..Len(headings) :
    /\ ~Includes(headings[i].text, <<"*", "*">>)
    /\ HasNoEdgeWhitespace(headings[i].text)

\* C11 witness: the outline of a heading line with a run of three or more
\* asterisks and a trailing blank has been returned, and an asterisk is left
C11_Witness ==
  /\ pc = "done"
  /\ Includes(doc, <<"*", "*", "*">>)
  /\ doc[Len(doc)] = SP
  /\ \E i \in 1..Len(headings) : Includes(headings[i].text, <<"*">>)

(***************************************************************************)
(* Claims about the code segments.                                         *)
(***************************************************************************)
\* the text between the opening fence of a fenced span and its first line
\* break, or its closing fence when it has no line break
FenceInfo(sp) ==
  IF IndexOf(sp, NL) >= 0
  THEN SubSeq(sp, 4, IndexOf(sp, NL))
  ELSE SubSeq(sp, 4, Len(sp) - 3)

\* C12: for every code segment made from a fenced span, neither the body nor
\* the language holds a fence, and the language is the trimmed text between
\* the opening fence and the first line break; this for every matched fence,
\* one without a line break included.
C12_FencesAndTagOutsideBody ==
  pc # "start" =>
    \A i \in 1..Len(contentParts) :
      (contentParts[i].type = "code" /\ IsFencedSpan(Spans[i])) =>
        /\ ~Includes(contentParts[i].code, Fence)
        /\ ~Includes(contentParts[i].language, Fence)
        /\ contentParts[i].language = Trim(FenceInfo(Spans[i]))

(***************************************************************************)
(* Claims about the outline with active-section tracking.                  *)
(***************************************************************************)
\* C13: whatever callbacks and clicks have happened, at most one outline item
\* is marked active, also when two headings have the same slug.
C13_AtMostOneActive ==
  Cardinality({i \in 1..Len(headings) : isActive(headings[i])}) <= 1

\* C14: activeId is empty or the id of an entry of the outline.
C14_ActiveIdInOutline ==
  activeId = <<>> \/ \E i \in 1..Len(headings) : headings[i].id = activeId

\* C14 witness: a heading is active on a page with a heading element whose
\* id no outline entry has
C14_Witness ==
  /\ pc = "observing"
  /\ activeId # <<>>
  /\ \E e \in 1..Len(ElementIds(view)) :
       \A i \in 1..Len(headings) : headings[i].id # ElementIds(view)[e]

(***************************************************************************)
(* Claims about the placeholder in processed segments.                     *)
(***************************************************************************)
\* C15: the content processContent leaves in a processed prose segment, with
\* the placeholder replaced by the empty string, holds no placeholder when
\* scanned again, whatever the number of placeholders in the segment was.
C15_NoPlaceholderAfterReplace ==
  pc \in {"processed", "rendered", "done"} =>
    \A i \in 1..Len(processedParts) :
      processedParts[i].type = "markdown" =>
        ~Includes(processedParts[i].content, TOC_PLACEHOLDER)

(***************************************************************************)
(* Claims about termination.                                               *)
(***************************************************************************)
\* C16: for every document, unbalanced fences and malformed headings
\* included, the step from the start is preprocessMarkdown returning its
\* segments, and every step of the exec loop either moves lastIndex strictly
\* forward, never beyond the end of the document, or ends the loop with the
\* component returning; so the loop ends within Len(doc) iterations.
C16_Total ==
  [][/\ pc = "start" => (pc' = "parts" /\ Len(contentParts') >= 1)
     /\ pc = "loop" =>
          \/ /\ pc' = "loop"
             /\ lastIndex' > lastIndex
             /\ lastIndex' <= Len(doc)
             /\ Len(headings') = Len(headings) + 1
          \/ /\ pc' = "done"
             /\ outline'.returned
             /\ headings' = headings]_vars

\* C16 witness: the loop has ended after two matches in a document with an
\* unclosed fence
C16_Witness ==
  /\ pc = "done"
  /\ Len(headings) >= 2
  /\ Len(SelectSeq(doc, IsBacktick)) = Len(Fence)
  /\ \A i \in 1..Len(contentParts) : contentParts[i].type = "markdown"

(***************************************************************************)
(* Claims about repeated renders.                                          *)
(***************************************************************************)
\* C17: a later render of the document of the first render returns the same
\* segments, heading entries and outline as the first one did, whatever was
\* rendered in between, and every exec loop starts at lastIndex 0 with no
\* entries.
C17_SameDocumentSameResult ==
  /\ (firstRender.done /\ doc = firstRender.doc) =>
       /\ pc \notin {"start"} => contentParts = firstRender.contentParts
       /\ pc = "done" =>
            (headings = firstRender.headings /\ outline = firstRender.outline)
  /\ (pc = "loop" /\ headings = <<>>) => lastIndex = 0

\* C17 witness: the document of the first render, which has heading entries
\* and a code segment, has been rendered again after another document
C17_Witness ==
  /\ firstRender.done
  /\ doc = firstRender.doc
  /\ pc = "done"
  /\ Len(headings) >= 1
  /\ \E i \in 1..Len(contentParts) : contentParts[i].type = "code"
  /\ firstRender.otherSince

(***************************************************************************)
(* Claims about the entries of the outline.                                *)
(***************************************************************************)
\* the 1-based position p lies inside the match that entry e comes from,
\* after its first character
InsideMatchOf(e, p) ==
  e.index + 1 < p /\ p <= HeadingMatch(doc, e.index + 1).lastIndex

C19_EmptyDocumentEmptyOutline ==
  /\ (pc # "start" /\ doc = <<>>) =>
       contentParts = <<[type |-> "markdown", content |-> <<>>,
                         id |-> <<"markdown", 0>>]>>
  /\ pc = "done" =>
       /\ doc = <<>> => headings = <<>>
       /\ outline.returned
       /\ outline.null <=> headings = <<>>
       /\ outline.null <=> ~\E p \in 1..Len(doc) : HeadingMatchesAt(doc, p)

\* C19 witness: the empty document has been rendered and its outline is null
C19_Witness ==
  /\ pc = "done"
  /\ doc = <<>>
  /\ Len(contentParts) = 1
  /\ outline.null

(***************************************************************************)
(* Claims about the six heading components.                                *)
(***************************************************************************)
\* C20: for the children of every rendered heading, the id derivations of
\* the h1, h2 and h3 components of both branches return the same string,
\* which is the id the element has.
C20_SixDerivationsAgree ==
  Rendered =>
    \A kj \in RenderedElements :
      LET e == view[kj[1]].elements[kj[2]]
      IN e.hasId =>
           /\ h1SplitId(e.children) = e.id
           /\ h2SplitId(e.children) = e.id
           /\ h3SplitId(e.children) = e.id
           /\ h1RegularId(e.children) = e.id
           /\ h2RegularId(e.children) = e.id
           /\ h3RegularId(e.children) = e.id

\* C20 witness: a level-2 heading with a capital letter and an emphasised
\* word has been rendered by the components of the split branch
C20_Witness ==
  /\ Rendered
  /\ \E kj \in RenderedElements :
       LET e == view[kj[1]].elements[kj[2]]
       IN /\ e.branch = "split"
          /\ e.level = 2
          /\ Len(e.children) >= 2
          /\ \E i \in 1..Len(e.children) :
               e.children[i].kind = "text" /\ Includes(e.children[i].value, <<"A">>)

(***************************************************************************)
(* The todo page (src/app/todo/page.tsx).  An item is a record with its id *)
(* and, for todos and roadmap items, its projectId; the other fields play  *)
(* no part in what is checked.  A value of localStorage is the JSON text,  *)
(* kept as the data it denotes.  A setter call is kept in queued until     *)
(* React renders again; the effects of a render run in the order of their  *)
(* declaration, each with the values of that render.                       *)
(***************************************************************************)
\* item.projectId, undefined for a missing property
ProjectIdOf(item) ==
  IF "projectId" \in DOMAIN item THEN item.projectId ELSE Undefined

\* JSON.stringify of a list of items: a property whose value is undefined
\* is left out
Stringify(items) ==
  [i \in 1..Len(items) |->
     IF ProjectIdOf(items[i]) = Undefined THEN [id |-> items[i].id] ELSE items[i]]

\* JSON.parse of a stored text
Parse(entry) == entry.json

\* localStorage.setItem(key, JSON.stringify(value))
Stored(items) == [present |-> TRUE, json |-> Stringify(items)]

\* useState of projects: Personal and Work
InitialProjects == <<[id |-> 1], [id |-> 2]>>

\* the effects in an order in which the save effects come first
MountEffectsSaveFirst == <<"saveTodos", "saveRoadmap", "saveProjects", "load">>

\* the effects of the first render, in the order of their declaration
MountEffects == <<"load", "saveTodos", "saveRoadmap", "saveProjects">>

\* Date.now() when the page is opened; stored items are older
Epoch == 5

\* what earlier visits can have left in localStorage
StoredTodos ==
  {Absent, Stored(<<>>), Stored(<<[id |-> 4, projectId |-> 1]>>),
   Stored(<<[id |-> 4]>>)}

StoredRoadmaps == {Absent, Stored(<<>>), Stored(<<[id |-> 3, projectId |-> 1]>>)}

StoredProjects ==
  {Absent, Stored(<<[id |-> 1]>>), Stored(<<[id |-> 1], [id |-> 2], [id |-> 3]>>)}

InitTodoPage ==
  /\ PostIdle /\ DirIdle /\ NavIdle /\ ListIdle /\ CopyIdle
  /\ todoPc = "unmounted"
  /\ todos = <<>>
  /\ roadmapItems = <<>>
  /\ projects = <<>>
  /\ queued = [todos |-> NoUpdate, roadmap |-> NoUpdate, projects |-> NoUpdate]
  /\ effectQueue = <<>>
  /\ storage \in [todos : StoredTodos, roadmap : StoredRoadmaps,
                   projects : StoredProjects]
  /\ todoProjectId = 1
  /\ roadmapProjectId = 1
  /\ clock = Epoch
  /\ storedBefore = storage
  /\ touched = FALSE

\* the first render: the values of useState, then all effects are due
TodoMount ==
  /\ todoPc = "unmounted"
  /\ todoPc' = "mounted"
  /\ todos' = <<>>
  /\ roadmapItems' = <<>>
  /\ projects' = InitialProjects
  /\ todoProjectId' = 1
  /\ roadmapProjectId' = 1
  /\ effectQueue' = MountEffects
  /\ UNCHANGED <<queued, storage, clock, storedBefore, touched, exceptTodo>>

Update(value) == [set |-> TRUE, value |-> value]

\* the body of the next effect that is due
TodoRunEffect ==
  /\ todoPc = "mounted"
  /\ effectQueue # <<>>
  /\ effectQueue' = Tail(effectQueue)
  /\ CASE Head(effectQueue) = "load" ->
            /\ queued' =
                 [todos |-> IF storage.todos.present
                            THEN Update(Parse(storage.todos))
                            ELSE queued.todos,
                  roadmap |-> IF storage.roadmap.present
                              THEN Update(Parse(storage.roadmap))
                              ELSE queued.roadmap,
                  projects |-> IF storage.projects.present
                               THEN Update(Parse(storage.projects))
                               ELSE queued.projects]
            /\ UNCHANGED storage
       [] Head(effectQueue) = "saveTodos" ->
            /\ storage' = [storage EXCEPT !.todos = Stored(todos)]
            /\ UNCHANGED queued
       [] Head(effectQueue) = "saveRoadmap" ->
            /\ storage' = [storage EXCEPT !.roadmap = Stored(roadmapItems)]
            /\ UNCHANGED queued
       [] Head(effectQueue) = "saveProjects" ->
            /\ storage' = [storage EXCEPT !.projects = Stored(projects)]
            /\ UNCHANGED queued
  /\ UNCHANGED <<todoPc, todos, roadmapItems, projects, todoProjectId,
                 roadmapProjectId, clock, storedBefore, touched, exceptTodo>>

\* React renders again with the values passed to the setters; the save
\* effect of every list that was set is due
TodoRerender ==
  /\ todoPc = "mounted"
  /\ effectQueue = <<>>
  /\ queued.todos.set \/ queued.roadmap.set \/ queued.projects.set
  /\ todos' = IF queued.todos.set THEN queued.todos.value ELSE todos
  /\ roadmapItems' = IF queued.roadmap.set THEN queued.roadmap.value ELSE roadmapItems
  /\ projects' = IF queued.projects.set THEN queued.projects.value ELSE projects
  /\ effectQueue' =
       (IF queued.todos.set THEN <<"saveTodos">> ELSE <<>>)
       \o (IF queued.roadmap.set THEN <<"saveRoadmap">> ELSE <<>>)
       \o (IF queued.projects.set THEN <<"saveProjects">> ELSE <<>>)
  /\ queued' = [todos |-> NoUpdate, roadmap |-> NoUpdate, projects |-> NoUpdate]
  /\ UNCHANGED <<todoPc, storage, todoProjectId, roadmapProjectId, clock,
                 storedBefore, touched, exceptTodo>>

\* renders and effects have settled: the page waits for the user
TodoSettled ==
  /\ todoPc = "mounted"
  /\ effectQueue = <<>>
  /\ ~(queued.todos.set \/ queued.roadmap.set \/ queued.projects.set)

\* what the user can have typed into a text field
TypedTexts == {<<SP>>, <<"t">>}

\* the ids of the options of a project select
ProjectOptions == {projects[i].id : i \in 1..Len(projects)}

\* addTodo with text in the input
addTodo ==
  /\ TodoSettled
  /\ clock < Epoch + MaxTodoAdds
  /\ \E newTodo \in TypedTexts :
       IF Trim(newTodo) # <<>>
       THEN /\ queued' = [queued EXCEPT !.todos =
                            Update(todos \o <<[id |-> clock + 1,
                                               projectId |-> todoProjectId]>>)]
            /\ clock' = clock + 1
            /\ touched' = TRUE
       ELSE UNCHANGED <<queued, clock, touched>>
  /\ UNCHANGED <<todoPc, todos, roadmapItems, projects, effectQueue, storage,
                 todoProjectId, roadmapProjectId, storedBefore, exceptTodo>>

\* addProject with name in the form
addProject ==
  /\ TodoSettled
  /\ clock < Epoch + MaxTodoAdds
  /\ \E name \in TypedTexts :
       IF Trim(name) # <<>>
       THEN /\ queued' = [queued EXCEPT !.projects =
                            Update(projects \o <<[id |-> clock + 1]>>)]
            /\ clock' = clock + 1
            /\ touched' = TRUE
       ELSE UNCHANGED <<queued, clock, touched>>
  /\ UNCHANGED <<todoPc, todos, roadmapItems, projects, effectQueue, storage,
                 todoProjectId, roadmapProjectId, storedBefore, exceptTodo>>

\* the list with the references to the project id removed
WithoutProject(items, id) ==
  [i \in 1..Len(items) |->
     IF ProjectIdOf(items[i]) = id
     THEN [id |-> items[i].id, projectId |-> Undefined]
     ELSE items[i]]

IsNotProject(id, project) == project.id # id

\* deleteProject(id), from the button of a listed project
deleteProject ==
  /\ TodoSettled
  /\ \E id \in ProjectOptions :
       queued' =
         [projects |-> Update(SelectSeq(projects, LAMBDA q : IsNotProject(id, q))),
          todos |-> Update(WithoutProject(todos, id)),
          roadmap |-> Update(WithoutProject(roadmapItems, id))]
  /\ touched' = TRUE
  /\ UNCHANGED <<todoPc, todos, roadmapItems, projects, effectQueue, storage,
                 todoProjectId, roadmapProjectId, clock, storedBefore, exceptTodo>>

\* addRoadmapItem with title in the form; the form is reset, projectId to 1
addRoadmapItem ==
  /\ TodoSettled
  /\ clock < Epoch + MaxTodoAdds
  /\ \E title \in TypedTexts :
       IF Trim(title) # <<>>
       THEN /\ queued' = [queued EXCEPT !.roadmap =
                            Update(roadmapItems \o <<[id |-> clock + 1,
                                                      projectId |-> roadmapProjectId]>>)]
            /\ roadmapProjectId' = 1
            /\ clock' = clock + 1
            /\ touched' = TRUE
       ELSE UNCHANGED <<queued, roadmapProjectId, clock, touched>>
  /\ UNCHANGED <<todoPc, todos, roadmapItems, projects, effectQueue, storage,
                 todoProjectId, storedBefore, exceptTodo>>

\* onChange of the project select of the todo form
setTodoProjectId ==
  /\ TodoSettled
  /\ \E v \in ProjectOptions : todoProjectId' = v
  /\ UNCHANGED <<todoPc, todos, roadmapItems, projects, queued, effectQueue,
                 storage, roadmapProjectId, clock, storedBefore, touched,
                 exceptTodo>>

\* onChange of the project select of the roadmap form
setRoadmapProjectId ==
  /\ TodoSettled
  /\ \E v \in ProjectOptions : roadmapProjectId' = v
  /\ UNCHANGED <<todoPc, todos, roadmapItems, projects, queued, effectQueue,
                 storage, todoProjectId, clock, storedBefore, touched, exceptTodo>>

TodoNext ==
  \/ TodoMount \/ TodoRunEffect \/ TodoRerender
  \/ addTodo \/ addProject \/ deleteProject \/ addRoadmapItem
  \/ setTodoProjectId \/ setRoadmapProjectId

SpecTodo == InitTodoPage /\ [][TodoNext]_vars

(***************************************************************************)
(* Claims about the todo page.                                             *)
(***************************************************************************)
\* C21: once the mount, its effects and the renders they cause have settled,
\* and before any handler has run, each list whose key was in localStorage
\* before the mount equals the stored value, and localStorage holds that
\* value again.
C21_StoredDataSurvivesMount ==
  (TodoSettled /\ ~touched) =>
    /\ storedBefore.todos.present =>
         (todos = Parse(storedBefore.todos) /\ storage.todos = storedBefore.todos)
    /\ storedBefore.roadmap.present =>
         /\ roadmapItems = Parse(storedBefore.roadmap)
         /\ storage.roadmap = storedBefore.roadmap
    /\ storedBefore.projects.present =>
         /\ projects = Parse(storedBefore.projects)
         /\ storage.projects = storedBefore.projects

\* C21 witness: the mount has settled with stored todos, a stored roadmap
\* and stored projects other than the initial state
C21_Witness ==
  /\ TodoSettled
  /\ ~touched
  /\ storedBefore.todos.present /\ Len(todos) >= 1
  /\ storedBefore.roadmap.present /\ Len(roadmapItems) >= 1
  /\ storedBefore.projects.present /\ Len(projects) = 3

\* the projectId of every item of the list is undefined or the id of a
\* current project
RefersToCurrentProjects(items) ==
  \A i \in 1..Len(items) :
    ProjectIdOf(items[i]) = Undefined \/ ProjectIdOf(items[i]) \in ProjectOptions

\* C26: in every settled state after any sequence of addTodo, addRoadmapItem,
\* addProject, deleteProject and changes of the project selects, the projectId
\* of every todo and of every roadmap item is undefined or the id of a project
\* in the current list.
C26_ReferentialIntegrity ==
  TodoSettled => (RefersToCurrentProjects(todos) /\ RefersToCurrentProjects(roadmapItems))

(***************************************************************************)
(* The posts directory (src/lib/getPosts.ts, generateParams.ts) and the    *)
(* blog index (src/app/blog/page.tsx).  A file is its name and the date of *)
(* its front matter; dates are numbers, a later date the greater one.      *)
(***************************************************************************)
MD == <<".", "m", "d">>

\* filename.replace(".md", "")
SlugOfFile(filename) == ReplaceFirst(filename, MD)

\* the path getPostBySlug joins: slug followed by .md
PathOfSlug(slug) == slug \o MD

\* getPosts: one post per file name, in the order readdirSync returned
getPosts(filenames) ==
  [i \in 1..Len(filenames) |->
     [slug |-> SlugOfFile(filenames[i].name), date |-> filenames[i].date]]

\* posts.slice(0, 2)
SliceTwo(items) == SubSeq(items, 1, IF Len(items) < 2 THEN Len(items) ELSE 2)

NameChunks == {<<"a">>, MD, <<"x">>}

FileNames == DocsUpTo(NameChunks, MaxNameChunks) \ {<<>>}

Files == [name : FileNames, date : 1..MaxPosts]

\* the listings of a directory: no two files of the same name
Directories ==
  {d \in UNION {[1..n -> Files] : n \in 0..MaxPosts} :
     \A i, j \in 1..Len(d) : d[i].name = d[j].name => i = j}

InitPostsDir ==
  /\ PostIdle /\ TodoIdle /\ NavIdle /\ ListIdle /\ CopyIdle
  /\ dirPc = "start"
  /\ postsDir \in Directories
  /\ postList = <<>>
  /\ featuredPosts = <<>>
  /\ staticParams = <<>>
  /\ opened = <<>>

\* BlogListPage: getPosts, then the featured posts
BlogListPage ==
  /\ dirPc = "start"
  /\ dirPc' = "index"
  /\ postList' = getPosts(postsDir)
  /\ featuredPosts' = SliceTwo(getPosts(postsDir))
  /\ UNCHANGED <<postsDir, staticParams, opened, exceptDir>>

\* generateStaticParams: one slug per file name
generateStaticParams ==
  /\ dirPc = "index"
  /\ dirPc' = "params"
  /\ staticParams' = [i \in 1..Len(postsDir) |-> SlugOfFile(postsDir[i].name)]
  /\ UNCHANGED <<postsDir, postList, featuredPosts, opened, exceptDir>>

\* BlogPostPage for the next param: getPostBySlug reads the file at the
\* path of the slug, and fails when the directory has no such file
getPostBySlug ==
  /\ dirPc = "params"
  /\ Len(opened) < Len(staticParams)
  /\ LET path == PathOfSlug(staticParams[Len(opened) + 1])
     IN opened' = Append(opened,
                    [path |-> path,
                     found |-> \E i \in 1..Len(postsDir) : postsDir[i].name = path])
  /\ UNCHANGED <<dirPc, postsDir, postList, featuredPosts, staticParams, exceptDir>>

\* every page of the build has been generated
BuildEnd ==
  /\ dirPc = "params"
  /\ Len(opened) = Len(staticParams)
  /\ dirPc' = "done"
  /\ UNCHANGED <<postsDir, postList, featuredPosts, staticParams, opened, exceptDir>>

DirNext == BlogListPage \/ generateStaticParams \/ getPostBySlug \/ BuildEnd

SpecPostsDir == InitPostsDir /\ [][DirNext]_vars

\* the number of files of the directory dated after the given date
MoreRecent(date) ==
  Cardinality({j \in 1..Len(postsDir) : postsDir[j].date > date})

\* C22: the featured posts of the blog index are the two most recent posts
\* by date, all of them when there are fewer than two, in whatever order the
\* directory lists its files: there are min(2, n) of them, and fewer than two
\* posts are dated after any featured one.
C22_FeaturedAreMostRecent ==
  dirPc # "start" =>
    /\ Len(featuredPosts) = (IF Len(postsDir) < 2 THEN Len(postsDir) ELSE 2)
    /\ \A k \in 1..Len(featuredPosts) : MoreRecent(featuredPosts[k].date) < 2

\* C29: for every file name of the posts directory, the slug derived from
\* it makes getPostBySlug read that same file.
C29_SlugRoundTrip ==
  \A i \in 1..Len(opened) :
    opened[i].found /\ opened[i].path = postsDir[i].name

(***************************************************************************)
(* The Navbar (src/components/Navbar.tsx): the mobile menu and the scroll  *)
(* lock on document.body.  The effect on pathname closes the menu; the     *)
(* effect on isMenuOpen sets the overflow of the body and resets it in its *)
(* cleanup.                                                                *)
(***************************************************************************)
\* the routes of the site: the paths of the three nav links, the todo page
\* and a blog post
Routes == {"/", "/blog", "/about", "/todo", "/blog/post"}

\* the cleanup that leaves the overflow of the body as it is
CleanupKeeps(style) == style

\* the cleanup of the scroll lock effect
LockCleanup(style) == "auto"

\* the body of the scroll lock effect
LockBody(open) == IF open THEN "hidden" ELSE "auto"

InitNavbar ==
  /\ PostIdle /\ TodoIdle /\ DirIdle /\ ListIdle /\ CopyIdle
  /\ navPc = "unmounted"
  /\ isMenuOpen = FALSE
  /\ pathname \in Routes
  /\ overflow = ""
  /\ navQueued = NoUpdate
  /\ navEffects = <<>>
  /\ lastEvent = "none"

\* the first render: both effects are due
NavMount ==
  /\ navPc = "unmounted"
  /\ navPc' = "mounted"
  /\ isMenuOpen' = FALSE
  /\ navEffects' = <<"close", "lock">>
  /\ lastEvent' = "mount"
  /\ UNCHANGED <<pathname, overflow, navQueued, exceptNav>>

\* the next effect that is due; the scroll lock effect runs the cleanup of
\* its previous run first
NavRunEffect ==
  /\ navPc = "mounted"
  /\ navEffects # <<>>
  /\ navEffects' = Tail(navEffects)
  /\ CASE Head(navEffects) = "close" ->
            /\ navQueued' = Update(FALSE)
            /\ UNCHANGED overflow
       [] Head(navEffects) = "lock" ->
            /\ overflow' = LockBody(isMenuOpen)
            /\ UNCHANGED navQueued
  /\ UNCHANGED <<navPc, isMenuOpen, pathname, lastEvent, exceptNav>>

\* React renders again with the value passed to setIsMenuOpen; the scroll
\* lock effect is due when isMenuOpen changed
NavRerender ==
  /\ navPc = "mounted"
  /\ navEffects = <<>>
  /\ navQueued.set
  /\ isMenuOpen' = navQueued.value
  /\ navEffects' = IF navQueued.value # isMenuOpen THEN <<"lock">> ELSE <<>>
  /\ navQueued' = NoUpdate
  /\ UNCHANGED <<navPc, pathname, overflow, lastEvent, exceptNav>>

\* renders and effects have settled
NavSettled ==
  /\ navPc = "mounted"
  /\ navEffects = <<>>
  /\ ~navQueued.set

\* toggleMenu, from the menu button
toggleMenu ==
  /\ NavSettled
  /\ navQueued' = Update(~isMenuOpen)
  /\ lastEvent' = "toggle"
  /\ UNCHANGED <<navPc, isMenuOpen, pathname, overflow, navEffects, exceptNav>>

\* a click on the backdrop, which is rendered while the menu is open
BackdropClick ==
  /\ NavSettled
  /\ isMenuOpen
  /\ navQueued' = Update(FALSE)
  /\ lastEvent' = "backdrop"
  /\ UNCHANGED <<navPc, isMenuOpen, pathname, overflow, navEffects, exceptNav>>

\* onClick of a nav link
NavLinkClick ==
  /\ NavSettled
  /\ navQueued' = Update(FALSE)
  /\ lastEvent' = "link"
  /\ UNCHANGED <<navPc, isMenuOpen, pathname, overflow, navEffects, exceptNav>>

\* usePathname returns another path: a render with the new pathname and the
\* value passed to setIsMenuOpen, if any; the effect on pathname is due
RouteChange ==
  /\ navPc = "mounted"
  /\ navEffects = <<>>
  /\ \E p \in Routes \ {pathname} : pathname' = p
  /\ LET open == IF navQueued.set THEN navQueued.value ELSE isMenuOpen
     IN /\ isMenuOpen' = open
        /\ navEffects' = <<"close">> \o (IF open # isMenuOpen THEN <<"lock">> ELSE <<>>)
        /\ lastEvent' = IF open THEN "route, menu open" ELSE "route"
  /\ navQueued' = NoUpdate
  /\ UNCHANGED <<navPc, overflow, exceptNav>>

\* the Navbar unmounts: the cleanup of the scroll lock effect runs
NavUnmount ==
  /\ NavSettled
  /\ navPc' = "gone"
  /\ overflow' = LockCleanup(overflow)
  /\ lastEvent' = "unmount"
  /\ UNCHANGED <<isMenuOpen, pathname, navQueued, navEffects, exceptNav>>

NavNext ==
  \/ NavMount \/ NavRunEffect \/ NavRerender
  \/ toggleMenu \/ BackdropClick \/ NavLinkClick \/ RouteChange \/ NavUnmount

SpecNavbar == InitNavbar /\ [][NavNext]_vars

\* C23: in every settled state after any sequence of menu toggles, backdrop
\* clicks, nav-link clicks and route changes, the overflow of document.body
\* is hidden exactly when the mobile menu is open; it is auto once a route
\* change has closed the menu, and once the Navbar has unmounted.
C23_ScrollLock ==
  /\ NavSettled => (overflow = "hidden" <=> isMenuOpen)
  /\ (NavSettled /\ lastEvent \in {"route", "route, menu open"}) =>
       (~isMenuOpen /\ overflow = "auto")
  /\ navPc = "gone" => overflow = "auto"

\* C23 witness: a route change found the menu open, and the page has settled
C23_Witness ==
  /\ NavSettled
  /\ lastEvent = "route, menu open"
  /\ overflow = "auto"

(***************************************************************************)
(* Claims about where BlogPost displays the outline.                       *)
(***************************************************************************)
\* the view holds the fallback outline (desktop sidebar or mobile top)
FallbackShown ==
  \E i \in 1..Len(view) : view[i].kind = "toc" /\ view[i].where \in {"sidebar", "mobile"}

\* the view holds an outline spliced into the article
SplicedShown ==
  \E i \in 1..Len(view) : view[i].kind = "toc" /\ view[i].where = "inline"

\* C24: for every document with at least one heading entry, the rendered
\* post holds the outline at least once, as the fallback or spliced into the
\* article, wherever the placeholder occurs in the document.
C24_OutlineDisplayed ==
  (pc \in {"rendered", "done"} /\ extractHeadings(doc) # <<>>) =>
    (FallbackShown \/ SplicedShown)

\* C25: the rendered post never holds both the fallback and a spliced
\* outline, and it holds the fallback exactly when the raw document does not
\* contain the placeholder at all.
C25_FallbackOrSpliced ==
  pc \in {"rendered", "done"} =>
    /\ ~(FallbackShown /\ SplicedShown)
    /\ FallbackShown <=> ~Includes(doc, TOC_PLACEHOLDER)

\* C25 witness: a document with a heading and the placeholder in its prose
\* is rendered with a spliced outline and without the fallback
C25_Witness ==
  /\ pc = "done"
  /\ Includes(doc, TOC_PLACEHOLDER)
  /\ headings # <<>>
  /\ SplicedShown
  /\ ~FallbackShown

(***************************************************************************)
(* BlogList and BlogSearch (src/components).  BlogSearch keeps the text of *)
(* its input in its own searchQuery (searchText here) and hands it to      *)
(* BlogList on submit and on clear; BlogList filters with its searchQuery  *)
(* and selectedTag.                                                        *)
(***************************************************************************)
\* a JavaScript condition on a string or null
TruthyTag(tag) == tag.some /\ tag.tag # <<>>

Tag(t) == [some |-> TRUE, tag |-> t]

\* post.tags.includes(selectedTag)
HasTag(post, t) == \E k \in 1..Len(post.tags) : post.tags[k] = t

\* the query as typed
RawQuery(text) == text

\* const query = searchQuery.toLowerCase()
LowerQuery(text) == ToLowerCase(text)

\* the callback of the second filter
MatchesQuery(post, query) ==
  \/ Includes(ToLowerCase(post.title), query)
  \/ Includes(ToLowerCase(post.description), query)
  \/ \E k \in 1..Len(post.tags) : Includes(ToLowerCase(post.tags[k]), query)

\* the callback of useMemo
FilterPosts(posts, tag, text) ==
  LET byTag == IF TruthyTag(tag)
               THEN SelectSeq(posts, LAMBDA post : HasTag(post, tag.tag))
               ELSE posts
  IN IF Trim(text) # <<>>
     THEN SelectSeq(byTag, LAMBDA post : MatchesQuery(post, LowerQuery(text)))
     ELSE byTag

\* Array.from(new Set(posts.flatMap(post => post.tags)))
allTags(posts) ==
  UNION {{posts[i].tags[k] : k \in 1..Len(posts[i].tags)} : i \in 1..Len(posts)}

\* the posts of the blog: titles, descriptions and tags in both cases
ListPostSet ==
  {[title |-> <<"A", "b">>, description |-> <<>>, tags |-> <<<<"x">>>>],
   [title |-> <<"b">>, description |-> <<"a", " ", "B">>, tags |-> <<>>],
   [title |-> <<>>, description |-> <<"b">>, tags |-> <<<<"x">>, <<"A">>>>],
   [title |-> <<"x">>, description |-> <<"x">>, tags |-> <<<<"B", "a">>>>]}

PostLists == UNION {[1..n -> ListPostSet] : n \in 0..MaxListPosts}

\* what can be typed into the search input
RECURSIVE TextsUpTo(_)
TextsUpTo(n) ==
  IF n = 0
  THEN {<<>>}
  ELSE TextsUpTo(n - 1)
       \cup {t \o <<c>> : t \in TextsUpTo(n - 1), c \in {"B", SP}}

InitBlogList ==
  /\ PostIdle /\ TodoIdle /\ DirIdle /\ NavIdle /\ CopyIdle
  /\ listPc = "unmounted"
  /\ listPosts \in PostLists
  /\ selectedTag = NoTag
  /\ searchQuery = <<>>
  /\ searchText = <<>>
  /\ filteredPosts = <<>>
  /\ editPending = FALSE
  /\ lastAction = "none"

\* the first render of BlogList and BlogSearch
ListMount ==
  /\ listPc = "unmounted"
  /\ listPc' = "mounted"
  /\ selectedTag' = NoTag
  /\ searchQuery' = <<>>
  /\ searchText' = <<>>
  /\ filteredPosts' = FilterPosts(listPosts, NoTag, <<>>)
  /\ UNCHANGED <<listPosts, editPending, lastAction, exceptList>>

\* onChange of the search input: BlogSearch alone renders again
SearchInputChange ==
  /\ listPc = "mounted"
  /\ \E text \in TextsUpTo(MaxQueryLen) \ {searchText} : searchText' = text
  /\ editPending' = TRUE
  /\ lastAction' = "type"
  /\ UNCHANGED <<listPc, listPosts, selectedTag, searchQuery, filteredPosts, exceptList>>

\* handleSearch, on submit of the form: onSearch is setSearchQuery of BlogList
handleSearch ==
  /\ listPc = "mounted"
  /\ searchQuery' = searchText
  /\ filteredPosts' = FilterPosts(listPosts, selectedTag, searchText)
  /\ editPending' = FALSE
  /\ lastAction' = "submit"
  /\ UNCHANGED <<listPc, listPosts, selectedTag, searchText, exceptList>>

\* clearSearch, from the button rendered while the input holds text
clearSearch ==
  /\ listPc = "mounted"
  /\ searchText # <<>>
  /\ searchText' = <<>>
  /\ searchQuery' = <<>>
  /\ filteredPosts' = FilterPosts(listPosts, selectedTag, <<>>)
  /\ editPending' = FALSE
  /\ lastAction' = "clear"
  /\ UNCHANGED <<listPc, listPosts, selectedTag, exceptList>>

\* Clear filters, the button BlogList renders while a tag or a query is set
ClearFilters ==
  /\ listPc = "mounted"
  /\ TruthyTag(selectedTag) \/ searchQuery # <<>>
  /\ selectedTag' = NoTag
  /\ searchQuery' = <<>>
  /\ filteredPosts' = FilterPosts(listPosts, NoTag, <<>>)
  /\ lastAction' = "clear filters"
  /\ UNCHANGED <<listPc, listPosts, searchText, editPending, exceptList>>

\* a tag button
SelectTag ==
  /\ listPc = "mounted"
  /\ \E t \in allTags(listPosts) :
       /\ selectedTag' = Tag(t)
       /\ filteredPosts' = FilterPosts(listPosts, Tag(t), searchQuery)
  /\ lastAction' = "tag"
  /\ UNCHANGED <<listPc, listPosts, searchQuery, searchText, editPending, exceptList>>

\* the All Posts button
SelectAllPosts ==
  /\ listPc = "mounted"
  /\ selectedTag' = NoTag
  /\ filteredPosts' = FilterPosts(listPosts, NoTag, searchQuery)
  /\ lastAction' = "tag"
  /\ UNCHANGED <<listPc, listPosts, searchQuery, searchText, editPending, exceptList>>

ListNext ==
  \/ ListMount \/ SearchInputChange \/ handleSearch \/ clearSearch
  \/ ClearFilters \/ SelectTag \/ SelectAllPosts

SpecBlogList == InitBlogList /\ [][ListNext]_vars

\* C27: when no edit of the input is pending since the last submit or clear,
\* the text of the search input equals the query BlogList applies, and after
\* Clear filters both are empty.
C27_InputShowsAppliedQuery ==
  listPc = "mounted" =>
    /\ ~editPending => searchText = searchQuery
    /\ lastAction = "clear filters" => (searchText = <<>> /\ searchQuery = <<>>)

\* the post at position i is to be shown: it carries the selected tag, if
\* any, and, unless the query is blank, its lower-cased title, description
\* or one of its tags contains the lower-cased query
Shown(i) ==
  /\ selectedTag.some => selectedTag.tag \in {listPosts[i].tags[k] : k \in 1..Len(listPosts[i].tags)}
  /\ (\E p \in 1..Len(searchQuery) : searchQuery[p] \notin Whitespace) =>
       LET q == ToLowerCase(searchQuery)
           fields == {ToLowerCase(listPosts[i].title), ToLowerCase(listPosts[i].description)}
                     \cup {ToLowerCase(listPosts[i].tags[k]) : k \in 1..Len(listPosts[i].tags)}
       IN \E f \in fields : \E a, b \in 0..Len(f) : SubSeq(f, a + 1, b) = q

\* C28: filteredPosts is exactly the posts, in their original order, that
\* carry the selected tag (if one is selected) and, when the query is not
\* blank, contain the lower-cased query in the lower-cased title,
\* description or a tag; a query of whitespace only filters nothing.
C28_FilteredPosts ==
  listPc = "mounted" =>
    \E at \in [1..Len(filteredPosts) -> 1..Len(listPosts)] :
      /\ \A k \in 1..Len(filteredPosts) : filteredPosts[k] = listPosts[at[k]]
      /\ \A k, l \in 1..Len(filteredPosts) : k < l => at[k] < at[l]
      /\ {at[k] : k \in 1..Len(filteredPosts)} = {i \in 1..Len(listPosts) : Shown(i)}

\* C28 witness: a tag is selected and a query with an upper-case letter is
\* applied; some posts are shown and some are not
C28_Witness ==
  /\ listPc = "mounted"
  /\ selectedTag.some
  /\ \E p \in 1..Len(searchQuery) : searchQuery[p] = "B"
  /\ filteredPosts # <<>>
  /\ Len(filteredPosts) < Len(listPosts)

(***************************************************************************)
(* The copy button of CodeBlock (src/lib/CodeBlock.tsx).  A click starts a *)
(* clipboard write; when the write completes, isCopied is set and a timer  *)
(* of two seconds is started that resets it.  Copies are numbered by their *)
(* clicks; timers of equal delay fire in the order they were started.      *)
(***************************************************************************)
\* the children of a CodeBlock: none, or some code
CodeChildren == {<<>>, <<"x">>}

InitCodeBlock ==
  /\ PostIdle /\ TodoIdle /\ DirIdle /\ NavIdle /\ ListIdle
  /\ copyPc = "unmounted"
  /\ isCopied = FALSE
  /\ writing = {}
  /\ timers = <<>>
  /\ copies = 0
  /\ shownBy = 0

\* the first render
CopyMount ==
  /\ copyPc = "unmounted"
  /\ copyPc' = "mounted"
  /\ isCopied' = FALSE
  /\ UNCHANGED <<writing, timers, copies, shownBy, exceptCopy>>

\* handleCopy: navigator.clipboard.writeText(codeString) when there are
\* children
handleCopy ==
  /\ copyPc = "mounted"
  /\ copies < MaxCopies
  /\ \E children \in CodeChildren :
       IF children # <<>>
       THEN /\ writing' = writing \cup {copies + 1}
            /\ copies' = copies + 1
       ELSE UNCHANGED <<writing, copies>>
  /\ UNCHANGED <<copyPc, isCopied, timers, shownBy, exceptCopy>>

\* the then callback of a clipboard write: setIsCopied(true) and setTimeout
WriteResolved ==
  /\ copyPc = "mounted"
  /\ \E copy \in writing :
       /\ writing' = writing \ {copy}
       /\ timers' = Append(timers, copy)
       /\ shownBy' = copy
  /\ isCopied' = TRUE
  /\ UNCHANGED <<copyPc, copies, exceptCopy>>

\* a clipboard write is rejected: the promise has no catch, nothing is set
WriteRejected ==
  /\ copyPc = "mounted"
  /\ \E copy \in writing : writing' = writing \ {copy}
  /\ UNCHANGED <<copyPc, isCopied, timers, copies, shownBy, exceptCopy>>

\* the callback of the oldest timer: setIsCopied(false)
TimerFires ==
  /\ copyPc = "mounted"
  /\ timers # <<>>
  /\ timers' = Tail(timers)
  /\ isCopied' = FALSE
  /\ UNCHANGED <<copyPc, writing, copies, shownBy, exceptCopy>>

CopyNext == CopyMount \/ handleCopy \/ WriteResolved \/ WriteRejected \/ TimerFires

SpecCodeBlock == InitCodeBlock /\ [][CopyNext]_vars

\* C30: for any interleaving of copy clicks, clipboard-write completions and
\* reset timers, the indicator set by a completed copy is not reset while
\* the timer started by that copy is pending, and once no write and no
\* timer is pending isCopied is false.
C30_CopiedUntilOwnTimer ==
  /\ (\E k \in 1..Len(timers) : timers[k] = shownBy) => isCopied
  /\ (copyPc = "mounted" /\ writing = {} /\ timers = <<>>) => ~isCopied
====
